---- MODULE Spec2Model ----
(***************************************************************************)
(* StandardAcpRuntime (acp-standard): the runtime adapter that drives one  *)
(* ACP agent child process per session key over line-delimited JSON-RPC.   *)
(*                                                                         *)
(* Granularity.  One action is one event-loop task of the Node runtime     *)
(* together with the promise reactions (microtasks) it queues: a host call *)
(* of the programmatic surface, one stdout line of a child, a child's      *)
(* 'close' or 'error' event, a stdin write callback reporting an error, a  *)
(* control timer firing, an abort of a turn's signal, and the consumer of  *)
(* a turn calling next() or return() on the async generator.               *)
(*                                                                         *)
(* The runtime's state is gathered in a record S = [agents, initializing,  *)
(* procs, calls, turns]; the operators named after the source's methods    *)
(* map S to the state after the method ran, and every action applies one   *)
(* such composition to the variables.                                      *)
(***************************************************************************)
EXTENDS Integers, Sequences, FiniteSets, TLC

VARIABLES
    agents,        \* this.agents: session key -> child (0: no entry)
    initializing,  \* this.initializing: session key -> child whose initAgent promise is in flight (0: none)
    procs,         \* every AgentProcess ever spawned, in spawn order
    calls,         \* every ensureSession call, in call order, with its outcome
    turns,         \* every runTurn generator, in creation order
    faults,        \* how many transport faults (spawn error, write error, timeout) happened
    healthy,       \* this.healthy
    probes,        \* every probeAvailability invocation, in call order
    lim            \* the bounds of this run (never changes)

vars == <<agents, initializing, procs, calls, turns, faults, healthy, probes, lim>>

----------------------------------------------------------------------------
(* Bounds of the model.  A run is checked within one scope, fixed by the    *)
(* initial state: the turn engine on one session, or the session registry  *)
(* over two session keys.                                                  *)

TurnChildren == 1    \* children spawned in one run
TurnCalls == 1       \* ensureSession calls in one run
TurnTurns == 1       \* runTurn invocations in one run
TurnReq == 4         \* requests written to one child
TurnUpdates == 1     \* session/update events delivered to one turn
TurnReplies == 0     \* agent-initiated requests answered per child
TurnFaults == 1      \* spawn errors, write errors and timeouts in one run

RegChildren == 2     \* children spawned in one run
RegCalls == 3        \* ensureSession calls in one run
RegReq == 2          \* requests written to one child
RegReplies == 0      \* agent-initiated requests answered per child
RegFaults == 1       \* spawn errors, write errors and timeouts in one run

ProbeCalls == 3      \* probeAvailability and doctor invocations in one run

SeqTurns == 2        \* runTurn invocations in one run
SeqReq == 4          \* requests written to one child

StreamReq == 3       \* requests written to one child
StreamUpdates == 2   \* session/update events delivered to one turn

MapReq == 3          \* requests written to one child
MapUpdates == 1      \* session/update events delivered to one turn

IdsReq == 5          \* requests written to one child

IsoChildren == 2     \* children spawned in one run
IsoCalls == 2        \* ensureSession calls in one run
IsoTurns == 2        \* runTurn invocations in one run
IsoReq == 3          \* requests written to one child
IsoUpdates == 1      \* session/update events delivered to one turn

LateTurns == 2       \* runTurn invocations in one run
LateReq == 5         \* requests written to one child
LateUpdates == 1     \* session/update events delivered to one turn

ReplyReq == 3        \* requests written to one child
ReplyUpdates == 1    \* session/update events delivered to one turn
ReplyReplies == 2    \* agent-initiated requests answered per child

LimTurn ==
    [children |-> TurnChildren, calls |-> TurnCalls, turns |-> TurnTurns,
     req |-> TurnReq, updates |-> TurnUpdates, replies |-> TurnReplies,
     faults |-> TurnFaults]

\* The registry scope runs no turn: its actions do not include runTurn.
LimRegistry ==
    [children |-> RegChildren, calls |-> RegCalls, turns |-> 0, req |-> RegReq,
     updates |-> 0, replies |-> RegReplies, faults |-> RegFaults]

LimProbe == [probes |-> ProbeCalls]

\* The scope of consecutive turns runs on one child, with no session/update
\* and no transport fault.
LimSeq ==
    [children |-> 1, calls |-> 1, turns |-> SeqTurns, req |-> SeqReq,
     updates |-> 0, replies |-> 0, faults |-> 0]

\* The scope of streamed updates runs one turn on one child, whose agent sends
\* updates of two kinds, with no transport fault.
LimStream ==
    [children |-> 1, calls |-> 1, turns |-> 1, req |-> StreamReq,
     updates |-> StreamUpdates, replies |-> 0, faults |-> 0]

\* The scope of the notification mapper runs one turn on one child, whose
\* agent sends session/update params of every shape.
LimMap ==
    [children |-> 1, calls |-> 1, turns |-> 1, req |-> MapReq,
     updates |-> MapUpdates, replies |-> 0, faults |-> 0, shapes |-> TRUE]

\* The scope of request ids runs the handshake, one turn, cancel and setMode
\* on one child, with no session/update and no transport fault.
LimIds ==
    [children |-> 1, calls |-> 1, turns |-> 1, req |-> IdsReq,
     updates |-> 0, replies |-> 0, faults |-> 0]

\* The scope of two sessions runs one turn on each of two session keys, with
\* no transport fault.
LimIso ==
    [children |-> IsoChildren, calls |-> IsoCalls, turns |-> IsoTurns,
     req |-> IsoReq, updates |-> IsoUpdates, replies |-> 0, faults |-> 0]

\* The scope of a cancelled turn and its successor runs two turns, one after
\* the other, on one established session, with no transport fault.
LimLate ==
    [children |-> 1, calls |-> 1, turns |-> LateTurns, req |-> LateReq,
     updates |-> LateUpdates, replies |-> 0, faults |-> 0]

\* The scope of agent-initiated requests runs one turn on one child, with no
\* transport fault.
LimReply ==
    [children |-> 1, calls |-> 1, turns |-> 1, req |-> ReplyReq,
     updates |-> ReplyUpdates, replies |-> ReplyReplies, faults |-> 0]

----------------------------------------------------------------------------
(* Values *)

Keys == {"k1", "k2"}
Null == "null"
NoCwd == "undefined"
ConfigCwd == "/cfg"
OtherCwd == "/other"
InputCwds == {NoCwd, OtherCwd}

STANDARD_ACP_BACKEND_ID == "acp-standard"

CONTROL_METHODS == {"initialize", "session/new", "session/cancel", "session/set_mode"}

Has(rec, f) == f \in DOMAIN rec

\* input.cwd ?? this.config.cwd
effectiveCwd(cwd) == IF cwd = NoCwd THEN ConfigCwd ELSE cwd

Handle(key, name, cwd) ==
    [sessionKey |-> key, backend |-> STANDARD_ACP_BACKEND_ID,
     runtimeSessionName |-> name, cwd |-> cwd]

\* agent.sessionId ?? key
sessionName(agent, key) == IF agent.sessionId = Null THEN key ELSE agent.sessionId

EvDone(stopReason) == [type |-> "done", stopReason |-> stopReason]
EvError(message) == [type |-> "error", message |-> message]
EvText(text) == [type |-> "text_delta", text |-> text, stream |-> "output"]
EvTool(text) == [type |-> "tool_call", text |-> text]
EvStatus(text) == [type |-> "status", text |-> text]

IsTerminal(ev) == ev.type \in {"done", "error"}

ErrExited == "Error: agent process exited"
ErrSpawn == "Error: spawn ENOENT"
ErrWrite == "Error: write EPIPE"
ErrRpc == "Error: {\"code\":-1}"
ErrTimeout(method) ==
    CASE method = "initialize" -> "Error: JSON-RPC request timed out: initialize"
      [] method = "session/new" -> "Error: JSON-RPC request timed out: session/new"
      [] method = "session/cancel" -> "Error: JSON-RPC request timed out: session/cancel"
      [] method = "session/set_mode" -> "Error: JSON-RPC request timed out: session/set_mode"
      [] OTHER -> "Error: JSON-RPC request timed out: session/prompt"
MsgUnexpected == "agent process exited unexpectedly"

\* String(err)
String(err) == err

State == [agents |-> agents, initializing |-> initializing, procs |-> procs,
          calls |-> calls, turns |-> turns]

----------------------------------------------------------------------------
(* AgentProcess and the spawn *)

spawnAgent(key) ==
    [key |-> key,
     running |-> TRUE,          \* the child's 'close' event has not fired
     sigterm |-> FALSE,         \* child.kill("SIGTERM") was called
     spawnCwd |-> ConfigCwd,    \* the cwd option of spawn()
     sessionId |-> Null,
     cwd |-> ConfigCwd,
     nextId |-> 1,
     pending |-> {},
     stdin |-> <<>>,            \* what was written to the child's stdin, in order
     notifications |-> 0,       \* the turn whose sink is installed (0: null)
     initReq |-> 0,             \* the request initAgent awaits (0: initAgent is over)
     initCwd |-> Null,          \* input.cwd ?? config.cwd of the call that runs initAgent
     errored |-> FALSE]         \* the child's 'error' event has fired

kill(S, c) == [S EXCEPT !.procs[c].sigterm = TRUE]

MethodOf(agent, id) ==
    LET hits == {i \in 1..Len(agent.stdin) :
                    agent.stdin[i].kind = "request" /\ agent.stdin[i].id = id}
    IN  IF hits = {} THEN Null ELSE agent.stdin[CHOOSE i \in hits : TRUE].method

\* Variant of sendRequest: the id is read and not advanced (agent.nextId for
\* agent.nextId++).
sendRequest_SameId(S, c, method, params) ==
    LET id == S.procs[c].nextId
    IN  [S EXCEPT !.procs[c].pending = @ \cup {id},
                  !.procs[c].stdin = Append(@, [kind |-> "request", id |-> id,
                                                method |-> method, params |-> params])]

\* sendRequest up to the return of the promise: allocate the id, register the
\* pending entry and write the framed request.  The id used is the old nextId.
sendRequest(S, c, method, params) ==
    LET id == S.procs[c].nextId
    IN  [S EXCEPT !.procs[c].nextId = id + 1,
                  !.procs[c].pending = @ \cup {id},
                  !.procs[c].stdin = Append(@, [kind |-> "request", id |-> id,
                                                method |-> method, params |-> params])]

----------------------------------------------------------------------------
(* The turn's event buffer *)

\* Variant of push: the event is put at the front of the buffer
\* (events.unshift(event) for events.push(event)).
push_Front(S, t, ev) == [S EXCEPT !.turns[t].events = <<ev>> \o @]

push(S, t, ev) == [S EXCEPT !.turns[t].events = Append(@, ev)]

\* A turn holds its close hook and abort hook from their installation to the
\* finally block.
Hooked(turn) == turn.pc \in {"wait", "yield"}

\* Variant of Resume: the buffer read as a stack (events.pop() for events.shift()).
Resume_Pop(turn) ==
    IF turn.pc = "wait" /\ turn.events # <<>>
    THEN [turn EXCEPT !.pc = "yield",
                      !.yielded = Append(@, turn.events[Len(turn.events)]),
                      !.events = SubSeq(turn.events, 1, Len(turn.events) - 1)]
    ELSE turn

\* The generator suspended in `await new Promise(r => resolveWait = r)` resumes
\* once an event was pushed: it shifts the first event and yields it.
Resume(turn) ==
    IF turn.pc = "wait" /\ turn.events # <<>>
    THEN [turn EXCEPT !.pc = "yield",
                      !.yielded = Append(@, Head(turn.events)),
                      !.events = Tail(turn.events)]
    ELSE turn

\* The buffer is a local of the generator: once the generator has returned
\* nothing reads it any more, and the model forgets its content.
Forget(turn) == IF turn.pc = "ended" THEN [turn EXCEPT !.events = <<>>] ELSE turn

WakeAll(S) == [S EXCEPT !.turns = [t \in DOMAIN S.turns |-> Forget(Resume(S.turns[t]))]]

----------------------------------------------------------------------------
(* ensureSession and initAgent *)

\* The end of initAgent and of the ensureSession call that started it: the
\* finally block removes the in-flight marker, and every call that awaits the
\* initAgent promise (the starter and the deduplicated ones) gets its outcome.
ensureDone(S, c, ok, res) ==
    [S EXCEPT !.initializing[S.procs[c].key] = 0,
              !.calls = [i \in DOMAIN S.calls |->
                           IF S.calls[i].init = c /\ S.calls[i].status = "pending"
                           THEN [S.calls[i] EXCEPT
                                    !.status = IF ok THEN "resolved" ELSE "rejected",
                                    !.result = res]
                           ELSE S.calls[i]]]

\* Variant of initAgentCont: the catch block only rethrows (no kill, no
\* this.agents.delete).
initAgentCont_NoCleanup(S, c, ok, val) ==
    LET agent == S.procs[c]
        key == agent.key
    IN  IF ~ok
        THEN ensureDone([S EXCEPT !.procs[c].initReq = 0], c, FALSE, val)
        ELSE IF MethodOf(agent, agent.initReq) = "initialize"
        THEN [sendRequest(S, c, "session/new", [cwd |-> agent.initCwd, mcpServers |-> <<>>])
                 EXCEPT !.procs[c].initReq = agent.nextId]
        ELSE LET sid == IF Has(val, "sessionId") THEN val.sessionId ELSE key
             IN  ensureDone([S EXCEPT !.procs[c].sessionId = sid,
                                      !.procs[c].cwd = agent.initCwd,
                                      !.procs[c].initReq = 0],
                            c, TRUE, Handle(key, sid, agent.initCwd))

\* initAgent resumed by the settlement of the request it awaits.
initAgentCont(S, c, ok, val) ==
    LET agent == S.procs[c]
        key == agent.key
    IN  IF ~ok
        THEN \* catch: kill, this.agents.delete(key), rethrow
             ensureDone([kill(S, c) EXCEPT !.agents[key] = 0, !.procs[c].initReq = 0],
                        c, FALSE, val)
        ELSE IF MethodOf(agent, agent.initReq) = "initialize"
        THEN [sendRequest(S, c, "session/new", [cwd |-> agent.initCwd, mcpServers |-> <<>>])
                 EXCEPT !.procs[c].initReq = agent.nextId]
        ELSE LET sid == IF Has(val, "sessionId") THEN val.sessionId ELSE key
             IN  ensureDone([S EXCEPT !.procs[c].sessionId = sid,
                                      !.procs[c].cwd = agent.initCwd,
                                      !.procs[c].initReq = 0],
                            c, TRUE, Handle(key, sid, agent.initCwd))

Call(key, cwd, init, status, result) ==
    [key |-> key, cwd |-> cwd, init |-> init, status |-> status, result |-> result]

\* initAgent up to its first await, and the registration of its promise.
freshInit(S, key, cwd) ==
    LET c == Len(S.procs) + 1
        S1 == [S EXCEPT !.procs = Append(@, [spawnAgent(key) EXCEPT
                                                !.initReq = 1,
                                                !.initCwd = effectiveCwd(cwd)]),
                        !.agents[key] = c]
        S2 == sendRequest(S1, c, "initialize",
                          [protocolVersion |-> "0.1",
                           clientInfo |-> [name |-> "openclaw", version |-> "1.0.0"]])
    IN  [S2 EXCEPT !.initializing[key] = c,
                   !.calls = Append(@, Call(key, cwd, c, "pending", Null))]

\* Variant of ensureSession: no look-up of the in-flight map.
ensureSession_NoDedup(S, key, cwd) ==
    LET eff == effectiveCwd(cwd)
        old == S.agents[key]
    IN  IF old # 0 /\ S.procs[old].cwd = eff
        THEN [S EXCEPT !.calls = Append(@, Call(key, cwd, 0, "resolved",
                                     Handle(key, sessionName(S.procs[old], key), eff)))]
        ELSE freshInit(IF old # 0 THEN [kill(S, old) EXCEPT !.agents[key] = 0] ELSE S,
                       key, cwd)

\* Variant of ensureSession: an existing session is never reused.
ensureSession_NoReuse(S, key, cwd) ==
    LET old == S.agents[key]
    IN  IF S.initializing[key] # 0
        THEN [S EXCEPT !.calls = Append(@, Call(key, cwd, S.initializing[key], "pending", Null))]
        ELSE freshInit(IF old # 0 THEN [kill(S, old) EXCEPT !.agents[key] = 0] ELSE S,
                       key, cwd)

\* Variant of ensureSession: an existing session is reused whatever its cwd.
ensureSession_NoCwdCheck(S, key, cwd) ==
    LET eff == effectiveCwd(cwd)
        old == S.agents[key]
    IN  IF S.initializing[key] # 0
        THEN [S EXCEPT !.calls = Append(@, Call(key, cwd, S.initializing[key], "pending", Null))]
        ELSE IF old # 0
        THEN [S EXCEPT !.calls = Append(@, Call(key, cwd, 0, "resolved",
                                     Handle(key, sessionName(S.procs[old], key), eff)))]
        ELSE freshInit(S, key, cwd)

ensureSession(S, key, cwd) ==
    LET eff == effectiveCwd(cwd)
        old == S.agents[key]
    IN  IF S.initializing[key] # 0
        THEN \* return the in-flight initialization
             [S EXCEPT !.calls = Append(@, Call(key, cwd, S.initializing[key], "pending", Null))]
        ELSE IF old # 0 /\ S.procs[old].cwd = eff
        THEN [S EXCEPT !.calls = Append(@, Call(key, cwd, 0, "resolved",
                                     Handle(key, sessionName(S.procs[old], key), eff)))]
        ELSE freshInit(IF old # 0 THEN [kill(S, old) EXCEPT !.agents[key] = 0] ELSE S,
                       key, cwd)

----------------------------------------------------------------------------
(* runTurn *)

\* Variant of promptSettled: only the fulfilment handler, no .catch().
promptSettled_NoCatch(S, t, ok, val) ==
    IF S.turns[t].done \/ ~ok THEN S
    ELSE push(S, t, EvDone(IF Has(val, "stopReason") THEN val.stopReason ELSE "end_turn"))

\* Variant of promptSettled: a rejected prompt also tears the session down
\* (kill and this.agents.delete), as a failed handshake does.
promptSettled_TearDown(S, t, ok, val) ==
    IF S.turns[t].done THEN S
    ELSE IF ok
    THEN push(S, t, EvDone(IF Has(val, "stopReason") THEN val.stopReason ELSE "end_turn"))
    ELSE push([kill(S, S.turns[t].agent) EXCEPT !.agents[S.turns[t].key] = 0],
              t, EvError(String(val)))

\* The handlers attached to promptPromise.
promptSettled(S, t, ok, val) ==
    IF S.turns[t].done THEN S
    ELSE IF ok
    THEN push(S, t, EvDone(IF Has(val, "stopReason") THEN val.stopReason ELSE "end_turn"))
    ELSE push(S, t, EvError(String(val)))

\* Variant of Settled: the turn is found by the id of its prompt alone,
\* whatever child the response came from.
Settled_AnyAgent(S, c, id, ok, val) ==
    LET ts == {t \in DOMAIN S.turns : S.turns[t].agent # 0 /\ S.turns[t].promptId = id}
    IN  IF S.procs[c].initReq = id THEN initAgentCont(S, c, ok, val)
        ELSE IF ts # {} THEN promptSettled(S, CHOOSE t \in ts : \A u \in ts : t >= u, ok, val)
        ELSE S

\* The reactions to the settlement of the promise of request id of child c.
Settled(S, c, id, ok, val) ==
    LET ts == {t \in DOMAIN S.turns : S.turns[t].agent = c /\ S.turns[t].promptId = id}
    IN  IF S.procs[c].initReq = id THEN initAgentCont(S, c, ok, val)
        ELSE IF ts # {} THEN promptSettled(S, CHOOSE t \in ts : TRUE, ok, val)
        ELSE S

Turn(key, aborted) ==
    [key |-> key,
     aborted |-> aborted,  \* input.signal?.aborted
     pc |-> "new",         \* "yield0", "threw", "wait", "yield", "ended"
     agent |-> 0,
     promptId |-> 0,
     events |-> <<>>,
     yielded |-> <<>>,     \* what the generator has yielded, in order
     done |-> FALSE]

\* Variant of runTurn: a missing agent is reported as an error event of the
\* stream instead of being thrown.
runTurn_ErrorEvent(S, key, aborted) ==
    LET t == Len(S.turns) + 1
        c == S.agents[key]
    IN  IF aborted
        THEN [S EXCEPT !.turns = Append(@, [Turn(key, aborted) EXCEPT
                                               !.pc = "yield0",
                                               !.yielded = <<EvDone("cancelled")>>])]
        ELSE IF c = 0
        THEN [S EXCEPT !.turns = Append(@, [Turn(key, aborted) EXCEPT
                                               !.pc = "yield0",
                                               !.yielded = <<EvError("No agent process for session.")>>])]
        ELSE sendRequest([S EXCEPT !.turns = Append(@, [Turn(key, aborted) EXCEPT
                                                           !.pc = "wait",
                                                           !.agent = c,
                                                           !.promptId = S.procs[c].nextId]),
                                   !.procs[c].notifications = t],
                         c, "session/prompt",
                         [sessionId |-> S.procs[c].sessionId, prompt |-> "text"])

\* Variant of runTurn: no test of input.signal?.aborted on entry.
runTurn_NoShortCircuit(S, key, aborted) ==
    LET t == Len(S.turns) + 1
        c == S.agents[key]
    IN  IF c = 0
        THEN [S EXCEPT !.turns = Append(@, [Turn(key, aborted) EXCEPT !.pc = "threw"])]
        ELSE sendRequest([S EXCEPT !.turns = Append(@, [Turn(key, aborted) EXCEPT
                                                           !.pc = "wait",
                                                           !.agent = c,
                                                           !.promptId = S.procs[c].nextId]),
                                   !.procs[c].notifications = t],
                         c, "session/prompt",
                         [sessionId |-> S.procs[c].sessionId, prompt |-> "text"])

\* runTurn(input) and the first next(): the generator body up to its first
\* suspension.
runTurn(S, key, aborted) ==
    LET t == Len(S.turns) + 1
        c == S.agents[key]
    IN  IF aborted
        THEN [S EXCEPT !.turns = Append(@, [Turn(key, aborted) EXCEPT
                                               !.pc = "yield0",
                                               !.yielded = <<EvDone("cancelled")>>])]
        ELSE IF c = 0
        THEN [S EXCEPT !.turns = Append(@, [Turn(key, aborted) EXCEPT !.pc = "threw"])]
        ELSE sendRequest([S EXCEPT !.turns = Append(@, [Turn(key, aborted) EXCEPT
                                                           !.pc = "wait",
                                                           !.agent = c,
                                                           !.promptId = S.procs[c].nextId]),
                                   !.procs[c].notifications = t],
                         c, "session/prompt",
                         [sessionId |-> S.procs[c].sessionId, prompt |-> "text"])

\* Variant of finally: the sink stays installed (no agent.notifications = null).
finally_KeepSink(S, t) == [S EXCEPT !.turns[t].pc = "ended"]

\* The finally block of the generator.
finally(S, t) ==
    [S EXCEPT !.procs[S.turns[t].agent].notifications = 0,
              !.turns[t].pc = "ended"]

\* Variant of next: the loop does not set done after a terminal event.
next_NoStop(S, t) ==
    IF S.turns[t].pc = "yield0" THEN [S EXCEPT !.turns[t].pc = "ended"]
    ELSE [S EXCEPT !.turns[t].pc = "wait"]

\* next() on a generator suspended at a yield.
next(S, t) ==
    LET turn == S.turns[t]
    IN  IF turn.pc = "yield0" THEN [S EXCEPT !.turns[t].pc = "ended"]
        ELSE IF IsTerminal(turn.yielded[Len(turn.yielded)])
        THEN finally([S EXCEPT !.turns[t].done = TRUE], t)
        ELSE [S EXCEPT !.turns[t].pc = "wait"]

\* return() on a generator suspended at a yield (the consumer stops early).
return(S, t) ==
    IF S.turns[t].pc = "yield0" THEN [S EXCEPT !.turns[t].pc = "ended"]
    ELSE finally(S, t)

cancel(S, key) ==
    LET c == S.agents[key]
    IN  IF c = 0 THEN S
        ELSE sendRequest(S, c, "session/cancel", [sessionId |-> S.procs[c].sessionId])

\* Variant of onAbort: the listener awaits cancel() before it pushes, so the
\* push is not part of the abort's task.
onAbort_AwaitCancel(S, t) == cancel(S, S.turns[t].key)

\* The abort listener of a running turn.
onAbort(S, t) ==
    LET S1 == cancel(S, S.turns[t].key)
    IN  IF S1.turns[t].done THEN S1 ELSE push(S1, t, EvDone("cancelled"))

\* The close listener of a running turn.
onClose(S, t) ==
    IF S.turns[t].done THEN S ELSE push(S, t, EvError(MsgUnexpected))

setMode(S, key, mode) ==
    LET c == S.agents[key]
    IN  IF c = 0 THEN S
        ELSE sendRequest(S, c, "session/set_mode",
                         [sessionId |-> S.procs[c].sessionId, modeId |-> mode])

\* Variant of close: the entry is deleted and the child is not signalled.
close_NoKill(S, key) == [S EXCEPT !.agents[key] = 0]

\* Variant of close: the in-flight entry of the key is deleted before the
\* registry is looked up.
close_ClearsInFlight(S, key) ==
    LET c == S.agents[key]
        S0 == [S EXCEPT !.initializing[key] = 0]
    IN  IF c = 0 THEN S0 ELSE [kill(S0, c) EXCEPT !.agents[key] = 0]

close(S, key) ==
    LET c == S.agents[key]
    IN  IF c = 0 THEN S ELSE [kill(S, c) EXCEPT !.agents[key] = 0]

\* Variant of closeAll: the loop stops after the first entry of the map.
closeAll_FirstOnly(S) ==
    LET live == {k \in Keys : S.agents[k] # 0}
    IN  IF live = {} THEN S
        ELSE LET k == CHOOSE x \in live : \A y \in live : S.agents[x] <= S.agents[y]
             IN  [kill(S, S.agents[k]) EXCEPT !.agents[k] = 0]

closeAll(S) ==
    [S EXCEPT !.agents = [k \in Keys |-> 0],
              !.procs = [c \in DOMAIN S.procs |->
                            IF \E k \in Keys : S.agents[k] = c
                            THEN [S.procs[c] EXCEPT !.sigterm = TRUE]
                            ELSE S.procs[c]]]

getStatus(S, key) ==
    IF S.agents[key] # 0
    THEN <<"running, sessionId=", S.procs[S.agents[key]].sessionId>>
    ELSE <<"no process">>

----------------------------------------------------------------------------
(* The transport: the handlers spawnAgent installs, and the timers *)

NoEvent == [type |-> "null"]
Absent == "undefined"

Field(rec, f) == IF Has(rec, f) THEN rec[f] ELSE Absent

\* Variant of mapNotificationToEvent: a sessionUpdate named after a terminal
\* event ends the turn.
mapNotificationToEvent_TurnEnd(params) ==
    IF ~Has(params, "update") THEN NoEvent
    ELSE LET update == params.update
             kind == Field(update, "sessionUpdate")
         IN  CASE kind = "agent_message_chunk" ->
                     EvText(IF Has(update, "content") /\ Has(update.content, "text")
                            THEN update.content.text ELSE "")
               [] kind = "tool_call" ->
                     EvTool(IF Has(update, "title") THEN update.title ELSE "tool")
               [] kind = "tool_call_update" ->
                     EvStatus(<<"tool ",
                                IF Has(update, "toolCallId") THEN update.toolCallId ELSE "",
                                ": ",
                                IF Has(update, "status") THEN update.status ELSE "">>)
               [] kind = "done" ->
                     EvDone(IF Has(update, "stopReason") THEN update.stopReason ELSE "end_turn")
               [] OTHER -> NoEvent

mapNotificationToEvent(params) ==
    IF ~Has(params, "update") THEN NoEvent
    ELSE LET update == params.update
             kind == Field(update, "sessionUpdate")
         IN  CASE kind = "agent_message_chunk" ->
                     EvText(IF Has(update, "content") /\ Has(update.content, "text")
                            THEN update.content.text ELSE "")
               [] kind = "tool_call" ->
                     EvTool(IF Has(update, "title") THEN update.title ELSE "tool")
               [] kind = "tool_call_update" ->
                     EvStatus(<<"tool ",
                                IF Has(update, "toolCallId") THEN update.toolCallId ELSE "",
                                ": ",
                                IF Has(update, "status") THEN update.status ELSE "">>)
               [] OTHER -> NoEvent

NullId == 0    \* JSON null in the id field of a message; request ids start at 1

\* Variant of lineHandler: no try/catch around JSON.parse; a line that does not
\* parse reaches the running turn as an error event.
lineHandler_NoCatch(S, c, line) ==
    IF ~line.json \/ ~line.object
    THEN IF S.procs[c].notifications # 0
         THEN push(S, S.procs[c].notifications, EvError("SyntaxError"))
         ELSE S
    ELSE LET msg == line.msg
             agent == S.procs[c]
         IN  IF Has(msg, "id") /\ msg.id # NullId
             THEN IF Has(msg, "method")
                  THEN [S EXCEPT !.procs[c].stdin =
                           Append(@, [kind |-> "error", id |-> msg.id, code |-> -32601])]
                  ELSE IF msg.id \in agent.pending
                  THEN Settled([S EXCEPT !.procs[c].pending = @ \ {msg.id}], c, msg.id,
                               ~Has(msg, "error"),
                               IF Has(msg, "error") THEN msg.error ELSE Field(msg, "result"))
                  ELSE S
             ELSE IF Has(msg, "method") /\ msg.method = "session/update"
             THEN IF ~Has(msg, "params") THEN S
                  ELSE LET event == mapNotificationToEvent(msg.params)
                       IN  IF event # NoEvent /\ agent.notifications # 0
                           THEN push(S, agent.notifications, event)
                           ELSE S
             ELSE S

\* Variant of lineHandler: the pending map is looked up before the method
\* field is tested, so an inbound request whose id is that of an outstanding
\* request settles it.
lineHandler_ResponseFirst(S, c, line) ==
    IF ~line.json \/ ~line.object THEN S
    ELSE LET msg == line.msg
             agent == S.procs[c]
         IN  IF Has(msg, "id") /\ msg.id # NullId
             THEN IF msg.id \in agent.pending
                  THEN Settled([S EXCEPT !.procs[c].pending = @ \ {msg.id}], c, msg.id,
                               ~Has(msg, "error"),
                               IF Has(msg, "error") THEN msg.error ELSE Field(msg, "result"))
                  ELSE IF Has(msg, "method")
                  THEN [S EXCEPT !.procs[c].stdin =
                           Append(@, [kind |-> "error", id |-> msg.id, code |-> -32601])]
                  ELSE S
             ELSE IF Has(msg, "method") /\ msg.method = "session/update"
             THEN IF ~Has(msg, "params") THEN S
                  ELSE LET event == mapNotificationToEvent(msg.params)
                       IN  IF event # NoEvent /\ agent.notifications # 0
                           THEN push(S, agent.notifications, event)
                           ELSE S
             ELSE S

\* Variant of lineHandler: a response settles its request and leaves the
\* pending entry in the map (no agent.pending.delete(id)).
lineHandler_NoDelete(S, c, line) ==
    IF ~line.json \/ ~line.object THEN S
    ELSE LET msg == line.msg
             agent == S.procs[c]
         IN  IF Has(msg, "id") /\ msg.id # NullId
             THEN IF Has(msg, "method")
                  THEN [S EXCEPT !.procs[c].stdin =
                           Append(@, [kind |-> "error", id |-> msg.id, code |-> -32601])]
                  ELSE IF msg.id \in agent.pending
                  THEN Settled(S, c, msg.id,
                               ~Has(msg, "error"),
                               IF Has(msg, "error") THEN msg.error ELSE Field(msg, "result"))
                  ELSE S
             ELSE IF Has(msg, "method") /\ msg.method = "session/update"
             THEN IF ~Has(msg, "params") THEN S
                  ELSE LET event == mapNotificationToEvent(msg.params)
                       IN  IF event # NoEvent /\ agent.notifications # 0
                           THEN push(S, agent.notifications, event)
                           ELSE S
             ELSE S

\* rl.on("line"): one line of the child's stdout.
lineHandler(S, c, line) ==
    IF ~line.json \/ ~line.object THEN S     \* JSON.parse or the `in` test throws: ignored
    ELSE LET msg == line.msg
             agent == S.procs[c]
         IN  IF Has(msg, "id") /\ msg.id # NullId
             THEN IF Has(msg, "method")
                  THEN [S EXCEPT !.procs[c].stdin =
                           Append(@, [kind |-> "error", id |-> msg.id, code |-> -32601])]
                  ELSE IF msg.id \in agent.pending
                  THEN Settled([S EXCEPT !.procs[c].pending = @ \ {msg.id}], c, msg.id,
                               ~Has(msg, "error"),
                               IF Has(msg, "error") THEN msg.error ELSE Field(msg, "result"))
                  ELSE S
             ELSE IF Has(msg, "method") /\ msg.method = "session/update"
             THEN IF ~Has(msg, "params") THEN S
                  ELSE LET event == mapNotificationToEvent(msg.params)
                       IN  IF event # NoEvent /\ agent.notifications # 0
                           THEN push(S, agent.notifications, event)
                           ELSE S
             ELSE S

RECURSIVE SettleAll(_, _, _, _)
\* The reactions to the rejection of the requests ids of child c, in the order
\* of the pending map (its insertion order is the order of the ids).
SettleAll(S, c, ids, err) ==
    IF ids = {} THEN S
    ELSE LET id == CHOOSE i \in ids : \A j \in ids : i <= j
         IN  SettleAll(Settled(S, c, id, FALSE, err), c, ids \ {id}, err)

RECURSIVE RunHooks(_, _, _)
\* The close listeners of the turns running on child c, in registration order.
RunHooks(S, c, t) ==
    IF t > Len(S.turns) THEN S
    ELSE RunHooks(IF S.turns[t].agent = c /\ Hooked(S.turns[t]) THEN onClose(S, t) ELSE S,
                  c, t + 1)

\* Variant of dropAgent: the entry of the key is deleted whichever child it
\* holds (no this.agents.get(key) === agent test).
dropAgent_AnyEntry(S, c) ==
    [S EXCEPT !.procs[c].pending = {},
              !.agents[S.procs[c].key] = 0]

\* Variant of dropAgent: the handlers leave the registry entry in place.
dropAgent_KeepEntry(S, c) == [S EXCEPT !.procs[c].pending = {}]

\* What the close handler and the error handler share: reject every pending
\* request, clear the map, and unregister the agent if it is still the entry.
dropAgent(S, c) ==
    [S EXCEPT !.procs[c].pending = {},
              !.agents[S.procs[c].key] = IF @ = c THEN 0 ELSE @]

\* Variant of closeHandler: the rejections reach the turns before their close
\* listeners run.
closeHandler_RejectFirst(S, c) ==
    RunHooks(SettleAll([dropAgent(S, c) EXCEPT !.procs[c].running = FALSE],
                       c, S.procs[c].pending, ErrExited),
             c, 1)

\* child.on("close"), then the turns' close listeners, then the rejections.
closeHandler(S, c) ==
    SettleAll(RunHooks([dropAgent(S, c) EXCEPT !.procs[c].running = FALSE], c, 1),
              c, S.procs[c].pending, ErrExited)

\* Variant of errorHandler: the pending map is cleared without rejecting its
\* entries.
errorHandler_ClearOnly(S, c) == [dropAgent(S, c) EXCEPT !.procs[c].errored = TRUE]

\* child.on("error")
errorHandler(S, c) ==
    SettleAll([dropAgent(S, c) EXCEPT !.procs[c].errored = TRUE],
              c, S.procs[c].pending, ErrSpawn)

\* The write callback of request id reports an error.
writeError(S, c, id) ==
    Settled([S EXCEPT !.procs[c].pending = @ \ {id}], c, id, FALSE, ErrWrite)

\* The timer of request id fires.
timeout(S, c, id) ==
    Settled([S EXCEPT !.procs[c].pending = @ \ {id}], c, id, FALSE,
            ErrTimeout(MethodOf(S.procs[c], id)))

\* Variant of Timed: every request arms the timer, whatever its method.
Timed_All(agent, id) == id \in agent.pending

\* Has request id of child c an armed timer?
Timed(agent, id) == id \in agent.pending /\ MethodOf(agent, id) \in CONTROL_METHODS

----------------------------------------------------------------------------
(* What a child may write to its stdout *)

\* The session id the agent of child c assigns in its session/new result.
SessionIdOf(c) == CASE c = 1 -> "sid-1" [] c = 2 -> "sid-2" [] OTHER -> "sid-3"

Results(c) == {[sessionId |-> SessionIdOf(c)], [stopReason |-> "max_tokens"], [other |-> "x"]}

\* The shapes params.update can take: every sessionUpdate kind the mapper
\* selects on, with and without the fields it reads, kinds it does not know
\* (among them the names of the terminal events), and no sessionUpdate at all.
Shapes ==
    {[sessionUpdate |-> "agent_message_chunk", content |-> [type |-> "text", text |-> "hello"]],
     [sessionUpdate |-> "agent_message_chunk", content |-> [type |-> "text", text |-> ""]],
     [sessionUpdate |-> "agent_message_chunk", content |-> [type |-> "image"]],
     [sessionUpdate |-> "agent_message_chunk"],
     [sessionUpdate |-> "tool_call", title |-> "read"],
     [sessionUpdate |-> "tool_call", toolCallId |-> "t1"],
     [sessionUpdate |-> "tool_call_update", toolCallId |-> "t1", status |-> "completed"],
     [sessionUpdate |-> "tool_call_update", toolCallId |-> "t1"],
     [sessionUpdate |-> "tool_call_update", status |-> "completed"],
     [sessionUpdate |-> "tool_call_update"],
     [sessionUpdate |-> "agent_thought_chunk", content |-> [type |-> "text", text |-> "hello"]],
     [sessionUpdate |-> "done", stopReason |-> "end_turn"],
     [sessionUpdate |-> "error", message |-> "boom"],
     [title |-> "read"]}

\* The params of the session/update messages of an agent; an agent whose turn
\* receives several updates also sends one of a second kind.
Updates ==
    {[update |-> [sessionUpdate |-> "agent_message_chunk",
                  content |-> [type |-> "text", text |-> "hello"]]],
     [other |-> "x"]}
      \cup (IF lim.updates > 1
            THEN {[update |-> [sessionUpdate |-> "tool_call", title |-> "read"]]}
            ELSE {})
      \cup (IF Has(lim, "shapes") THEN {[update |-> u] : u \in Shapes} ELSE {})

Json(msg) == [json |-> TRUE, object |-> TRUE, msg |-> msg]

Lines(c) ==
    {[json |-> FALSE, object |-> FALSE], [json |-> TRUE, object |-> FALSE]}
      \cup {Json([jsonrpc |-> "2.0", id |-> i, result |-> r]) : i \in 1..lim.req, r \in Results(c)}
      \cup {Json([jsonrpc |-> "2.0", id |-> i, error |-> ErrRpc]) : i \in 1..lim.req}
      \cup {Json([jsonrpc |-> "2.0", id |-> i, method |-> m]) :
               i \in 1..lim.req, m \in {"session/request_permission"}}
      \cup {Json([jsonrpc |-> "2.0", id |-> i, method |-> "session/update", params |-> u]) :
               i \in 1..lim.req, u \in Updates}
      \cup {Json([jsonrpc |-> "2.0", method |-> "session/update", params |-> u]) : u \in Updates}
      \cup {Json([jsonrpc |-> "2.0", method |-> "session/update"]),
            Json([jsonrpc |-> "2.0", method |-> "other"])}

----------------------------------------------------------------------------
(* The actions *)

Updated(turn) ==
    Cardinality({i \in 1..Len(turn.yielded) : ~IsTerminal(turn.yielded[i])})
      + Cardinality({i \in 1..Len(turn.events) : ~IsTerminal(turn.events[i])})

Replies(agent) == Cardinality({i \in 1..Len(agent.stdin) : agent.stdin[i].kind = "error"})

Bounded(S) ==
    /\ Len(S.procs) <= lim.children
    /\ Len(S.calls) <= lim.calls
    /\ Len(S.turns) <= lim.turns
    /\ \A c \in DOMAIN S.procs : /\ S.procs[c].nextId <= lim.req + 1
                                 /\ Replies(S.procs[c]) <= lim.replies
    /\ \A t \in DOMAIN S.turns : Updated(S.turns[t]) <= lim.updates

\* The task is over: the generators woken by it resume, and the variables take
\* the new state.
Apply(S) ==
    LET T == WakeAll(S)
    IN  /\ Bounded(T)
        /\ agents' = T.agents
        /\ initializing' = T.initializing
        /\ procs' = T.procs
        /\ calls' = T.calls
        /\ turns' = T.turns
        /\ lim' = lim
        /\ UNCHANGED <<healthy, probes>>

Constructed ==
    /\ agents = [k \in Keys |-> 0]
    /\ initializing = [k \in Keys |-> 0]
    /\ procs = <<>>
    /\ calls = <<>>
    /\ turns = <<>>
    /\ faults = 0
    /\ healthy = FALSE
    /\ probes = <<>>

EnsureSession(key, cwd) == Apply(ensureSession(State, key, cwd)) /\ UNCHANGED faults

RunTurn(key, aborted) == Apply(runTurn(State, key, aborted)) /\ UNCHANGED faults

TurnNext(t) ==
    /\ turns[t].pc \in {"yield0", "yield"}
    /\ Apply(next(State, t))
    /\ UNCHANGED faults

TurnReturn(t) ==
    /\ turns[t].pc \in {"yield0", "yield"}
    /\ Apply(return(State, t))
    /\ UNCHANGED faults

Abort(t) ==
    /\ ~turns[t].aborted
    /\ Apply(IF Hooked(turns[t])
             THEN onAbort([State EXCEPT !.turns[t].aborted = TRUE], t)
             ELSE [State EXCEPT !.turns[t].aborted = TRUE])
    /\ UNCHANGED faults

Cancel(key) == Apply(cancel(State, key)) /\ UNCHANGED faults

SetMode(key) == Apply(setMode(State, key, "fast")) /\ UNCHANGED faults

Close(key) == Apply(close(State, key)) /\ UNCHANGED faults

CloseAll == Apply(closeAll(State)) /\ UNCHANGED faults

AgentLine(c, line) ==
    /\ procs[c].running /\ ~procs[c].errored
    /\ Apply(lineHandler(State, c, line))
    /\ UNCHANGED faults

ChildClose(c) ==
    /\ procs[c].running
    /\ Apply(closeHandler(State, c))
    /\ UNCHANGED faults

Fault == faults < lim.faults /\ faults' = faults + 1

ChildError(c) ==
    /\ procs[c].running /\ ~procs[c].errored
    /\ Apply(errorHandler(State, c))
    /\ Fault

WriteError(c, id) ==
    /\ id \in procs[c].pending
    /\ Apply(writeError(State, c, id))
    /\ Fault

Timeout(c, id) ==
    /\ Timed(procs[c], id)
    /\ Apply(timeout(State, c, id))
    /\ Fault

----------------------------------------------------------------------------
(* probeAvailability and doctor *)

\* What a probe child does: it closes with an exit code, closes with a null
\* code (killed by a signal), or emits 'error' (the spawn failed).
Exits ==
    {[event |-> "close", null |-> FALSE, code |-> 0],
     [event |-> "close", null |-> FALSE, code |-> 1],
     [event |-> "close", null |-> TRUE, code |-> 0],
     [event |-> "error"]}

Threw == [event |-> "threw"]     \* spawn() itself threw
NoExit == [event |-> "none"]

NoReport == [kind |-> "none"]

\* resolve(c ?? 1) of the close listener, resolve(1) of the error listener
code(exit) ==
    IF exit.event = "close" THEN (IF exit.null THEN 1 ELSE exit.code) ELSE 1

\* Variant of probeAvailability: a failed probe leaves an earlier true in place.
probeAvailability_Sticky(old, exit) ==
    IF exit.event = "threw" THEN old ELSE old \/ code(exit) = 0

\* The value probeAvailability gives this.healthy: code === 0 after the child
\* settled, false in the catch block.
probeAvailability(old, exit) ==
    IF exit.event = "threw" THEN FALSE ELSE code(exit) = 0

isHealthy(h) == h

\* The report of doctor once its probe returned.
doctor(h) ==
    IF h THEN [kind |-> "report", ok |-> TRUE, message |-> "available"]
    ELSE [kind |-> "report", ok |-> FALSE, code |-> "ACP_BACKEND_UNAVAILABLE",
          message |-> "not responding"]

ProbeCall(byDoctor, status, exit, report) ==
    [doctor |-> byDoctor, status |-> status, exit |-> exit, report |-> report]

\* The end of a probe: healthy is set and, for doctor, the report is made in
\* the promise reactions of the same task.
Returned(h, byDoctor, exit) ==
    ProbeCall(byDoctor, "returned", exit, IF byDoctor THEN doctor(isHealthy(h)) ELSE NoReport)

\* A host call of probeAvailability (byDoctor: through doctor) up to its await.
ProbeAvailability(byDoctor, threw) ==
    /\ Len(probes) < lim.probes
    /\ IF threw
       THEN /\ healthy' = probeAvailability(healthy, Threw)
            /\ probes' = Append(probes, Returned(healthy', byDoctor, Threw))
       ELSE /\ healthy' = healthy
            /\ probes' = Append(probes, ProbeCall(byDoctor, "running", NoExit, NoReport))
    /\ UNCHANGED <<agents, initializing, procs, calls, turns, faults, lim>>

\* The probe child of invocation p closes or fails.
ProbeSettle(p, exit) ==
    /\ probes[p].status = "running"
    /\ healthy' = probeAvailability(healthy, exit)
    /\ probes' = [probes EXCEPT ![p] = Returned(healthy', probes[p].doctor, exit)]
    /\ UNCHANGED <<agents, initializing, procs, calls, turns, faults, lim>>

InitProbe == Constructed /\ lim = LimProbe

NextProbe ==
    \/ \E threw \in BOOLEAN : ProbeAvailability(FALSE, threw)
    \/ \E threw \in BOOLEAN : ProbeAvailability(TRUE, threw)
    \/ \E p \in DOMAIN probes : \E exit \in Exits : ProbeSettle(p, exit)

SpecProbe == InitProbe /\ [][NextProbe]_vars

----------------------------------------------------------------------------
(* The turn engine: one session key, one child *)

TurnKey == "k1"

InitTurn == Constructed /\ lim = LimTurn

NextTurn ==
    \/ \E cwd \in InputCwds : EnsureSession(TurnKey, cwd)
    \/ Close(TurnKey)
    \/ \E aborted \in BOOLEAN : RunTurn(TurnKey, aborted)
    \/ \E t \in DOMAIN turns : TurnNext(t)
    \/ \E t \in DOMAIN turns : TurnReturn(t)
    \/ \E t \in DOMAIN turns : Abort(t)
    \/ \E c \in DOMAIN procs : \E line \in Lines(c) : AgentLine(c, line)
    \/ \E c \in DOMAIN procs : ChildClose(c)
    \/ \E c \in DOMAIN procs : ChildError(c)
    \/ \E c \in DOMAIN procs : \E id \in procs[c].pending : WriteError(c, id)
    \/ \E c \in DOMAIN procs : \E id \in procs[c].pending : Timeout(c, id)

SpecTurn == InitTurn /\ [][NextTurn]_vars

----------------------------------------------------------------------------
(* The session registry: two session keys, children replaced *)

InitRegistry == Constructed /\ lim = LimRegistry

NextRegistry ==
    \/ \E key \in Keys, cwd \in InputCwds : EnsureSession(key, cwd)
    \/ \E key \in Keys : Close(key)
    \/ CloseAll
    \/ \E c \in DOMAIN procs : \E line \in Lines(c) : AgentLine(c, line)
    \/ \E c \in DOMAIN procs : ChildClose(c)
    \/ \E c \in DOMAIN procs : ChildError(c)
    \/ \E c \in DOMAIN procs : \E id \in procs[c].pending : WriteError(c, id)
    \/ \E c \in DOMAIN procs : \E id \in procs[c].pending : Timeout(c, id)

SpecRegistry == InitRegistry /\ [][NextRegistry]_vars

----------------------------------------------------------------------------
(* Agent-initiated requests: one turn on one child that also sends requests *)

InitReply == Constructed /\ lim = LimReply

NextReply ==
    \/ EnsureSession(TurnKey, NoCwd)
    \/ RunTurn(TurnKey, FALSE)
    \/ \E t \in DOMAIN turns : TurnNext(t)
    \/ \E c \in DOMAIN procs : \E line \in Lines(c) : AgentLine(c, line)

SpecReply == InitReply /\ [][NextReply]_vars

----------------------------------------------------------------------------
(* Consecutive turns on one session *)

InitSeq == Constructed /\ lim = LimSeq

NextSeq ==
    \/ EnsureSession(TurnKey, NoCwd)
    \/ Close(TurnKey)
    \/ RunTurn(TurnKey, FALSE)
    \/ \E t \in DOMAIN turns : TurnNext(t)
    \/ \E c \in DOMAIN procs : \E line \in Lines(c) : AgentLine(c, line)
    \/ \E c \in DOMAIN procs : ChildClose(c)

SpecSeq == InitSeq /\ [][NextSeq]_vars

----------------------------------------------------------------------------
(* Streamed updates of one turn *)

InitStream == Constructed /\ lim = LimStream

NextStream ==
    \/ EnsureSession(TurnKey, NoCwd)
    \/ RunTurn(TurnKey, FALSE)
    \/ \E t \in DOMAIN turns : TurnNext(t)
    \/ \E c \in DOMAIN procs : \E line \in Lines(c) : AgentLine(c, line)

SpecStream == InitStream /\ [][NextStream]_vars

----------------------------------------------------------------------------
(* The notification mapper: one turn fed with every shape of session/update *)

InitMap == Constructed /\ lim = LimMap

NextMap ==
    \/ EnsureSession(TurnKey, NoCwd)
    \/ RunTurn(TurnKey, FALSE)
    \/ \E t \in DOMAIN turns : TurnNext(t)
    \/ \E c \in DOMAIN procs : \E line \in Lines(c) : AgentLine(c, line)

SpecMap == InitMap /\ [][NextMap]_vars

----------------------------------------------------------------------------
(* Request ids: the handshake, a turn, cancel and setMode on one child *)

InitIds == Constructed /\ lim = LimIds

NextIds ==
    \/ EnsureSession(TurnKey, NoCwd)
    \/ RunTurn(TurnKey, FALSE)
    \/ Cancel(TurnKey)
    \/ SetMode(TurnKey)
    \/ \E t \in DOMAIN turns : Abort(t)
    \/ \E t \in DOMAIN turns : TurnNext(t)
    \/ \E c \in DOMAIN procs : \E line \in Lines(c) : AgentLine(c, line)

SpecIds == InitIds /\ [][NextIds]_vars

----------------------------------------------------------------------------
(* Two sessions: a turn on each of two session keys *)

InitIso == Constructed /\ lim = LimIso

\* The session of a key is established: its handshake has completed.
Established(key) == agents[key] # 0 /\ procs[agents[key]].sessionId # Null

\* The host calls ensureSession once for each key and, once the session is
\* established, runTurn once.
NextIso ==
    \/ \E key \in Keys :
          (\A i \in DOMAIN calls : calls[i].key # key) /\ EnsureSession(key, NoCwd)
    \/ \E key \in Keys :
          /\ \A t \in DOMAIN turns : turns[t].key # key
          /\ Established(key)
          /\ RunTurn(key, FALSE)
    \/ \E t \in DOMAIN turns : TurnNext(t)
    \/ \E c \in DOMAIN procs : \E line \in Lines(c) : AgentLine(c, line)

SpecIso == InitIso /\ [][NextIso]_vars

----------------------------------------------------------------------------
(* A cancelled turn and its successor on one session *)

InitLate == Constructed /\ lim = LimLate

\* The host starts a turn once the session is established and every earlier
\* turn is over.
NextLate ==
    \/ EnsureSession(TurnKey, NoCwd)
    \/ /\ Established(TurnKey)
       /\ \A t \in DOMAIN turns : turns[t].pc = "ended"
       /\ RunTurn(TurnKey, FALSE)
    \/ \E t \in DOMAIN turns : Abort(t)
    \/ \E t \in DOMAIN turns : TurnNext(t)
    \/ \E c \in DOMAIN procs : \E line \in Lines(c) : AgentLine(c, line)

SpecLate == InitLate /\ [][NextLate]_vars

----------------------------------------------------------------------------
(* Properties of the turn engine *)

Last(seq) == seq[Len(seq)]

TerminalYielded(turn) == turn.yielded # <<>> /\ IsTerminal(Last(turn.yielded))

\* The events of a turn in the order they were pushed: yielded, then buffered.
Pushed(turn) == turn.yielded \o turn.events

NoTerminal(turn) == \A i \in 1..Len(Pushed(turn)) : ~IsTerminal(Pushed(turn)[i])

FirstTerminal(turn) ==
    IF NoTerminal(turn) THEN NoEvent
    ELSE Pushed(turn)[CHOOSE i \in 1..Len(Pushed(turn)) :
                         /\ IsTerminal(Pushed(turn)[i])
                         /\ \A j \in 1..(i - 1) : ~IsTerminal(Pushed(turn)[j])]

Terminals(seq) == {i \in 1..Len(seq) : IsTerminal(seq[i])}

\* C1: in what a turn has yielded there is at most one terminal event (done or
\* error), and it is the last event yielded, however many terminal events the
\* prompt response, the close hook and the abort hook have put in the buffer.
C1_OneTerminalLast ==
    \A t \in DOMAIN turns :
        \A i \in 1..Len(turns[t].yielded) :
            IsTerminal(turns[t].yielded[i]) => i = Len(turns[t].yielded)

\* C1 witness: a turn has yielded its terminal event while two more terminal
\* events (three sources: prompt, close hook, abort hook) wait in its buffer.
C1_Witness ==
    \E t \in DOMAIN turns :
        /\ TerminalYielded(turns[t])
        /\ Cardinality(Terminals(turns[t].events)) >= 2
        /\ turns[t].aborted
        /\ ~procs[turns[t].agent].running

\* The consumer of a turn iterates with for-await: it calls next() again after
\* every event.  Nothing is assumed of the agent, the host or the timers.
SpecTurnFair ==
    SpecTurn /\ \A t \in 1..TurnTurns : WF_vars(t \in DOMAIN turns /\ TurnNext(t))

Started(t) == t \in DOMAIN turns /\ turns[t].pc \in {"wait", "yield"}

\* The turn has yielded its terminal event, or its consumer stopped early.
Over(t) ==
    /\ t \in DOMAIN turns
    /\ \/ TerminalYielded(turns[t])
       \/ turns[t].pc = "ended"

\* The turn runs on a child whose handshake is over.
Ready(t) == Started(t) /\ procs[turns[t].agent].initReq = 0

Killed(t) == t \in DOMAIN turns /\ turns[t].agent # 0 /\ procs[turns[t].agent].sigterm

\* C2 as stated, for a turn on a session whose handshake is over and whose
\* child is never sent SIGTERM: the turn eventually yields a terminal event,
\* whatever the agent does.
C2_Original == \A t \in 1..TurnTurns : Ready(t) ~> (Over(t) \/ Killed(t))

\* Something that ends a turn has happened: its prompt is settled, its child
\* has closed, or its signal is aborted.
Triggered(t) ==
    /\ Started(t)
    /\ \/ turns[t].aborted
       \/ ~procs[turns[t].agent].running
       \/ turns[t].promptId \notin procs[turns[t].agent].pending

\* C2 amended: a turn eventually yields a terminal event once its prompt is
\* answered or rejected, its child has closed, or its signal is aborted.
C2_Amended == \A t \in 1..TurnTurns : Triggered(t) ~> Over(t)

\* C2 witness: a turn that was waiting on a silent agent has yielded its
\* terminal event after the child closed.
C2_Witness ==
    \E t \in DOMAIN turns :
        /\ turns[t].pc = "ended" /\ turns[t].done
        /\ Last(turns[t].yielded) = EvError(MsgUnexpected)

PreAbortedStep(key) == RunTurn(key, TRUE)

\* C3: runTurn with an already aborted signal yields done{cancelled} and nothing
\* else, and neither that step nor the end of the generator touches a child
\* (no request, no sink), the registry or the in-flight map.
C3_PreAborted ==
    [][/\ \A key \in Keys :
            PreAbortedStep(key) =>
                /\ procs' = procs /\ agents' = agents /\ initializing' = initializing
                /\ Last(turns').yielded = <<EvDone("cancelled")>>
                /\ Last(turns').pc = "yield0"
       /\ \A t \in DOMAIN turns :
            turns[t].pc = "yield0" =>
                /\ turns'[t].yielded = turns[t].yielded
                /\ turns'[t].pc \in {"yield0", "ended"}
                /\ turns'[t].pc = "ended" => procs' = procs /\ agents' = agents
                /\ \A c \in DOMAIN procs : procs[c].notifications # t
      ]_vars

\* C3 witness: a pre-aborted turn on a key with a live session has ended.
C3_Witness ==
    \E t \in DOMAIN turns :
        /\ turns[t].agent = 0 /\ turns[t].pc = "ended"
        /\ turns[t].yielded = <<EvDone("cancelled")>>
        /\ agents[turns[t].key] # 0
        /\ procs[agents[turns[t].key]].sessionId # Null

IsCancelOf(entry, agent) ==
    /\ entry.kind = "request"
    /\ entry.method = "session/cancel"
    /\ entry.id = agent.nextId
    /\ entry.params = [sessionId |-> agent.sessionId]

\* C4: an abort while the turn waits on an empty buffer makes the turn yield
\* done{cancelled} in the same task, with exactly one session/cancel written to
\* the key's registered child (none when the key has no session); afterwards
\* nothing (a reply to session/cancel, its timeout) changes what was yielded.
C4_AbortWhileWaiting ==
    [][\A t \in DOMAIN turns :
          /\ (Abort(t) /\ turns[t].pc = "wait") =>
                /\ turns'[t].pc = "yield"
                /\ turns'[t].yielded = Append(turns[t].yielded, EvDone("cancelled"))
                /\ LET c == agents[turns[t].key]
                   IN  /\ c = 0 => \A d \in DOMAIN procs : procs'[d].stdin = procs[d].stdin
                       /\ c # 0 =>
                            /\ Len(procs'[c].stdin) = Len(procs[c].stdin) + 1
                            /\ IsCancelOf(Last(procs'[c].stdin), procs[c])
                            /\ SubSeq(procs'[c].stdin, 1, Len(procs[c].stdin)) = procs[c].stdin
                            /\ \A d \in DOMAIN procs \ {c} : procs'[d].stdin = procs[d].stdin
          /\ (TerminalYielded(turns[t]) /\ Last(turns[t].yielded) = EvDone("cancelled")) =>
                turns'[t].yielded = turns[t].yielded
      ]_vars

\* C4 witness: the turn has yielded done{cancelled} while both its prompt and
\* the session/cancel it sent are still unanswered.
C4_Witness ==
    \E t \in DOMAIN turns :
        /\ turns[t].agent # 0
        /\ TerminalYielded(turns[t])
        /\ Last(turns[t].yielded) = EvDone("cancelled")
        /\ turns[t].promptId \in procs[turns[t].agent].pending
        /\ \E id \in procs[turns[t].agent].pending :
              MethodOf(procs[turns[t].agent], id) = "session/cancel"

\* C5 as stated: a turn whose signal was aborted before it yielded its terminal
\* event yields done{cancelled} as its terminal event.
C5_Original ==
    [][\A t \in DOMAIN turns :
          (/\ turns[t].aborted /\ turns[t].agent # 0
           /\ ~TerminalYielded(turns[t]) /\ TerminalYielded(turns'[t])) =>
              Last(turns'[t].yielded) = EvDone("cancelled")
      ]_vars

\* C5 amended: a turn whose signal is aborted while no terminal event has been
\* pushed for it (buffered or yielded) gets done{cancelled} as its first
\* terminal event, and the terminal event it yields is that one.
C5_Amended ==
    [][\A t \in DOMAIN turns :
          /\ (Abort(t) /\ Hooked(turns[t]) /\ NoTerminal(turns[t])) =>
                FirstTerminal(turns'[t]) = EvDone("cancelled")
          /\ (/\ turns[t].aborted /\ turns[t].agent # 0
              /\ FirstTerminal(turns[t]) = EvDone("cancelled")
              /\ ~TerminalYielded(turns[t]) /\ TerminalYielded(turns'[t])) =>
                Last(turns'[t].yielded) = EvDone("cancelled")
      ]_vars

\* C5 witness: after the abort of a turn suspended at the yield of an update,
\* the child closed and the prompt was rejected, and the turn still ended with
\* done{cancelled}.
C5_Witness ==
    \E t \in DOMAIN turns :
        /\ turns[t].aborted /\ turns[t].pc = "ended" /\ turns[t].done
        /\ Len(turns[t].yielded) >= 2
        /\ Last(turns[t].yielded) = EvDone("cancelled")
        /\ ~procs[turns[t].agent].running

----------------------------------------------------------------------------
(* Properties of the session registry *)

\* The requests of a method written to a child's stdin.
Sent(agent, method) ==
    {i \in 1..Len(agent.stdin) :
        agent.stdin[i].kind = "request" /\ agent.stdin[i].method = method}

\* The ensureSession calls that got the initAgent promise of child c.
Awaiting(c) == {i \in DOMAIN calls : calls[i].init = c}

\* The call that started the initAgent of its child.
Starter(i) == calls[i].init # 0 /\ \A j \in 1..(i - 1) : calls[j].init # calls[i].init

\* C6: an ensureSession call that arrives while a handshake for its key is in
\* flight spawns nothing and writes nothing, and joins the calls awaiting that
\* handshake; every child gets exactly one initialize and at most one
\* session/new; the calls that share a handshake all resolve or all reject,
\* with the same handle or the same error.
C6_SharedHandshake ==
    /\ [](\A c \in DOMAIN procs :
             /\ Cardinality(Sent(procs[c], "initialize")) = 1
             /\ Cardinality(Sent(procs[c], "session/new")) <= 1
             /\ \A i, j \in Awaiting(c) :
                   /\ calls[i].status = calls[j].status
                   /\ calls[i].result = calls[j].result)
    /\ [][\A key \in Keys, cwd \in InputCwds :
             (EnsureSession(key, cwd) /\ initializing[key] # 0) =>
                 /\ procs' = procs /\ agents' = agents /\ initializing' = initializing
                 /\ calls' = Append(calls, Call(key, cwd, initializing[key], "pending", Null))
                 /\ \E i \in Awaiting(initializing[key]) : calls[i].status = "pending"
         ]_vars

\* C6 witness: three overlapping calls for one key have resolved with the
\* handle of the one handshake of the one child spawned.
C6_Witness ==
    /\ Len(procs) = 1 /\ Len(calls) = 3
    /\ \A i \in DOMAIN calls : calls[i].init = 1 /\ calls[i].status = "resolved"
    /\ Cardinality(Sent(procs[1], "session/new")) = 1

\* Child c holds a session of key that nothing has invalidated: its handshake
\* succeeded, the child has not exited or failed, and no close, closeAll or
\* cwd change has killed it.
Valid(c, key) ==
    /\ procs[c].key = key
    /\ procs[c].sessionId # Null
    /\ procs[c].running /\ ~procs[c].errored /\ ~procs[c].sigterm

\* C7: ensureSession for a key that holds a valid session, with the session's
\* effective cwd, resolves at once with the session's id as runtimeSessionName
\* (the one the handshake's calls got), spawns no child and writes no request.
C7_Reuse ==
    [][\A key \in Keys, cwd \in InputCwds, c \in DOMAIN procs :
          (EnsureSession(key, cwd) /\ Valid(c, key) /\ procs[c].cwd = effectiveCwd(cwd)) =>
              /\ procs' = procs /\ agents' = agents /\ initializing' = initializing
              /\ calls' = Append(calls, Call(key, cwd, 0, "resolved",
                                   Handle(key, procs[c].sessionId, effectiveCwd(cwd))))
              /\ \A i \in Awaiting(c) :
                    /\ calls[i].status = "resolved"
                    /\ calls[i].result.runtimeSessionName = procs[c].sessionId
      ]_vars

\* C7 witness: after the handshake's call, two further calls have returned the
\* same runtimeSessionName from the one child.
C7_Witness ==
    /\ Len(procs) = 1 /\ Len(calls) = 3
    /\ calls[1].init = 1 /\ calls[2].init = 0 /\ calls[3].init = 0
    /\ \A i \in DOMAIN calls :
          /\ calls[i].status = "resolved"
          /\ calls[i].result.runtimeSessionName = SessionIdOf(1)

\* C8: ensureSession for a key whose session has another cwd than the call's
\* effective cwd sends SIGTERM to the old child, replaces the registry entry by
\* a child spawned in this call and starts its handshake; session/new carries
\* the call's effective cwd, and the handle the call gets carries that cwd and
\* the session id of the new child.
C8_CwdChange ==
    /\ [][\A key \in Keys, cwd \in InputCwds :
             (/\ EnsureSession(key, cwd)
              /\ initializing[key] = 0 /\ agents[key] # 0
              /\ procs[agents[key]].cwd # effectiveCwd(cwd)) =>
                 LET old == agents[key]
                     new == Len(procs) + 1
                 IN  /\ procs'[old].sigterm
                     /\ Len(procs') = new
                     /\ agents'[key] = new /\ initializing'[key] = new
                     /\ procs'[new].sessionId = Null
                     /\ Len(procs'[new].stdin) = 1
                     /\ procs'[new].stdin[1].method = "initialize"
                     /\ calls' = Append(calls, Call(key, cwd, new, "pending", Null))
         ]_vars
    /\ [](\A i \in DOMAIN calls :
             Starter(i) =>
                 /\ \A r \in Sent(procs[calls[i].init], "session/new") :
                       procs[calls[i].init].stdin[r].params.cwd = effectiveCwd(calls[i].cwd)
                 /\ calls[i].status = "resolved" =>
                       calls[i].result = Handle(calls[i].key,
                                                procs[calls[i].init].sessionId,
                                                effectiveCwd(calls[i].cwd)))

\* C8 witness: a call with another cwd has resolved with the session of a
\* second child, the first child of the key having been killed.
C8_Witness ==
    \E i \in DOMAIN calls :
        /\ calls[i].status = "resolved" /\ calls[i].init = 2
        /\ calls[i].cwd = OtherCwd
        /\ calls[i].result = Handle(calls[i].key, SessionIdOf(2), OtherCwd)
        /\ procs[1].key = calls[i].key
        /\ procs[1].sessionId = SessionIdOf(1) /\ procs[1].cwd = ConfigCwd
        /\ procs[1].sigterm

\* The handshake of child c ends in this step without a session.
HandshakeFails(c) ==
    procs[c].initReq # 0 /\ procs'[c].initReq = 0 /\ procs'[c].sessionId = Null

\* C9: when the request a handshake awaits is rejected (error response, write
\* error, timeout, child exit, spawn failure) every call awaiting the handshake
\* is rejected with that error, the child has been sent SIGTERM, and the key
\* has no entry in the registry and none in the in-flight map; and an
\* ensureSession for a key with no entry in either spawns a new child.
C9_InitFailure ==
    [][/\ \A c \in DOMAIN procs :
            /\ (/\ procs[c].initReq # 0
                /\ \/ Timeout(c, procs[c].initReq)
                   \/ WriteError(c, procs[c].initReq)
                   \/ ChildError(c)
                   \/ ChildClose(c)
                   \/ AgentLine(c, Json([jsonrpc |-> "2.0", id |-> procs[c].initReq,
                                         error |-> ErrRpc]))) => HandshakeFails(c)
            /\ HandshakeFails(c) =>
                  LET key == procs[c].key
                      id == procs[c].initReq
                  IN  /\ procs'[c].sigterm
                      /\ agents'[key] = 0 /\ initializing'[key] = 0
                      /\ Awaiting(c) # {}
                      /\ \A i \in Awaiting(c) :
                            /\ calls[i].status = "pending"
                            /\ calls'[i].status = "rejected"
                            /\ Timeout(c, id) =>
                                  calls'[i].result = ErrTimeout(MethodOf(procs[c], id))
                            /\ WriteError(c, id) => calls'[i].result = ErrWrite
                            /\ ChildError(c) => calls'[i].result = ErrSpawn
                            /\ ChildClose(c) => calls'[i].result = ErrExited
                            /\ (\E line \in Lines(c) : AgentLine(c, line)) =>
                                  calls'[i].result = ErrRpc
       /\ \A key \in Keys, cwd \in InputCwds :
            (EnsureSession(key, cwd) /\ agents[key] = 0 /\ initializing[key] = 0) =>
                /\ Len(procs') = Len(procs) + 1
                /\ agents'[key] = Len(procs') /\ initializing'[key] = Len(procs')
                /\ calls' = Append(calls, Call(key, cwd, Len(procs'), "pending", Null))
      ]_vars

\* C9 witness: a call was rejected by the timeout of session/new, its child was
\* killed, and a later call for the key runs the handshake of a new child.
C9_Witness ==
    \E i, j \in DOMAIN calls :
        /\ i < j /\ calls[i].key = calls[j].key
        /\ calls[i].status = "rejected"
        /\ calls[i].result = ErrTimeout("session/new")
        /\ procs[calls[i].init].sigterm
        /\ calls[j].init > calls[i].init
        /\ agents[calls[j].key] = calls[j].init

Registered(c) == \E k \in Keys : agents[k] = c

\* C10: closeAll sends SIGTERM to every child of the registry and to no other,
\* and leaves the registry empty, so getStatus reports "no process" for every
\* key; and only the spawn of a new child puts an entry into the registry, so
\* a handshake that ends after closeAll brings none back.
C10_CloseAll ==
    [][/\ CloseAll =>
            /\ \A k \in Keys : agents'[k] = 0 /\ getStatus(State', k) = <<"no process">>
            /\ \A c \in DOMAIN procs :
                  IF Registered(c) THEN procs'[c].sigterm ELSE procs'[c] = procs[c]
       /\ \A k \in Keys :
            (agents'[k] # agents[k] /\ agents'[k] # 0) =>
                Len(procs') = Len(procs) + 1 /\ agents'[k] = Len(procs')
      ]_vars

\* C10 witness: the registry is empty and both children, one with a session
\* and one in its handshake, have been sent SIGTERM and have not yet exited.
C10_Witness ==
    /\ \A k \in Keys : agents[k] = 0 /\ getStatus(State, k) = <<"no process">>
    /\ Len(procs) = 2
    /\ procs[1].key # procs[2].key
    /\ procs[1].sigterm /\ procs[1].running /\ procs[1].sessionId # Null
    /\ procs[2].sigterm /\ procs[2].running /\ procs[2].initReq # 0
    /\ initializing[procs[2].key] = 2

----------------------------------------------------------------------------
(* Properties of the transport inside a turn *)

\* A stdout line on which JSON.parse throws.
NotJson == [json |-> FALSE, object |-> FALSE]

Response(id, result) == Json([jsonrpc |-> "2.0", id |-> id, result |-> result])

\* The turn runs on child c and its session/prompt is unanswered.
Prompting(t, c) ==
    /\ Hooked(turns[t]) /\ turns[t].agent = c
    /\ turns[t].promptId \in procs[c].pending

\* C11: in every reachable state a stdout line that is not JSON changes nothing
\* (no request settled, no event delivered), and a running turn with no terminal
\* event gets the done of its prompt response as its terminal event also when
\* such lines are read before and after the response.
C11_MalformedIgnored ==
    \A c \in DOMAIN procs :
        /\ lineHandler(State, c, NotJson) = State
        /\ \A t \in DOMAIN turns :
              (Prompting(t, c) /\ NoTerminal(turns[t])) =>
                  \A r \in Results(c) :
                      LET S1 == lineHandler(State, c, NotJson)
                          S2 == lineHandler(S1, c, Response(turns[t].promptId, r))
                          S3 == WakeAll(lineHandler(S2, c, NotJson))
                      IN  /\ FirstTerminal(S3.turns[t])
                               = EvDone(IF Has(r, "stopReason") THEN r.stopReason
                                        ELSE "end_turn")
                          /\ S3.procs[c].pending = procs[c].pending \ {turns[t].promptId}

\* C11 witness: a turn that has yielded an update waits on its unanswered
\* prompt while its child runs: lines of any kind may be read here.
C11_Witness ==
    \E t \in DOMAIN turns :
        /\ Prompting(t, turns[t].agent) /\ turns[t].pc = "wait"
        /\ turns[t].yielded # <<>>
        /\ procs[turns[t].agent].running /\ ~procs[turns[t].agent].sigterm

\* C12: when the child of a running turn closes while no terminal event has
\* been queued or yielded for the turn, the turn's first terminal event is
\* error{"agent process exited unexpectedly"}, the rejection of its pending
\* prompt ("agent process exited") comes behind it, and the terminal event the
\* turn yields is the former.
C12_UnexpectedExit ==
    [][\A t \in DOMAIN turns :
          /\ (/\ Hooked(turns[t]) /\ NoTerminal(turns[t])
              /\ ChildClose(turns[t].agent)) =>
                 /\ FirstTerminal(turns'[t]) = EvError(MsgUnexpected)
                 /\ Prompting(t, turns[t].agent) =>
                       Last(Pushed(turns'[t])) = EvError(String(ErrExited))
          /\ (/\ turns[t].agent # 0
              /\ FirstTerminal(turns[t]) = EvError(MsgUnexpected)
              /\ ~TerminalYielded(turns[t]) /\ TerminalYielded(turns'[t])) =>
                 Last(turns'[t].yielded) = EvError(MsgUnexpected)
      ]_vars

\* C12 witness: a turn has yielded the unexpected-exit error while the
\* rejection of its prompt is still in its buffer.
C12_Witness ==
    \E t \in DOMAIN turns :
        /\ turns[t].pc = "yield"
        /\ Last(turns[t].yielded) = EvError(MsgUnexpected)
        /\ turns[t].events = <<EvError(String(ErrExited))>>
        /\ ~turns[t].aborted

Holds(seq, ev) == \E i \in 1..Len(seq) : seq[i] = ev

\* C13: the close of a child rejects every request pending on it with "agent
\* process exited" (the calls awaiting its handshake are rejected with it, the
\* turn whose prompt was pending gets it as an error event) and empties the
\* pending map; if the child is the registry's entry of its key the entry is
\* removed, getStatus reports "no process" and a runTurn for the key throws.
C13_ChildClose ==
    [][\A c \in DOMAIN procs :
          ChildClose(c) =>
              LET key == procs[c].key
              IN  /\ procs'[c].pending = {}
                  /\ \A i \in Awaiting(c) :
                        calls[i].status = "pending" =>
                            /\ calls'[i].status = "rejected"
                            /\ calls'[i].result = ErrExited
                  /\ \A t \in DOMAIN turns :
                        Prompting(t, c) =>
                            Holds(Pushed(turns'[t]), EvError(String(ErrExited)))
                  /\ agents[key] = c =>
                        /\ agents'[key] = 0
                        /\ getStatus(State', key) = <<"no process">>
                        /\ Last(runTurn(State', key, FALSE).turns).pc = "threw"
      ]_vars

\* C13 witness: the child of an established session has closed on its own with
\* a prompt pending: the pending map is empty, the key has no entry, and the
\* rejection of the prompt is in the turn's buffer.
C13_Witness ==
    \E t \in DOMAIN turns :
        LET c == turns[t].agent
        IN  /\ c # 0
            /\ ~procs[c].running /\ ~procs[c].sigterm /\ ~procs[c].errored
            /\ procs[c].sessionId # Null
            /\ procs[c].pending = {}
            /\ agents[procs[c].key] = 0
            /\ Holds(turns[t].events, EvError(String(ErrExited)))

\* C14: runTurn with a signal that is not aborted, for a key with no entry in
\* the registry, throws (pc "threw": AcpRuntimeError ACP_TURN_FAILED) with
\* nothing yielded; the step writes no request and changes no child, no
\* registry entry, no in-flight entry and no other turn; the generator that
\* threw holds no sink and never does anything afterwards (only its signal may
\* still be aborted).
C14_NoSession ==
    [][/\ \A key \in Keys :
            (RunTurn(key, FALSE) /\ agents[key] = 0) =>
                /\ procs' = procs /\ agents' = agents
                /\ initializing' = initializing /\ calls' = calls
                /\ Len(turns') = Len(turns) + 1
                /\ Last(turns').pc = "threw"
                /\ Last(turns').yielded = <<>> /\ Last(turns').agent = 0
                /\ \A t \in DOMAIN turns : turns'[t] = turns[t]
       /\ \A t \in DOMAIN turns :
            turns[t].pc = "threw" =>
                /\ [turns'[t] EXCEPT !.aborted = turns[t].aborted] = turns[t]
                /\ \A c \in DOMAIN procs : procs[c].notifications # t
      ]_vars

\* C14 witness: a turn has thrown for a key whose session was closed while
\* the closed child is still running.
C14_Witness ==
    \E t \in DOMAIN turns :
        /\ turns[t].pc = "threw" /\ turns[t].yielded = <<>>
        /\ agents[turns[t].key] = 0
        /\ \E c \in DOMAIN procs :
              /\ procs[c].key = turns[t].key /\ procs[c].sessionId # Null
              /\ procs[c].running /\ procs[c].sigterm

----------------------------------------------------------------------------
(* Properties of the control operations *)

\* C15: in every reachable state, cancel and close for a key with no entry in
\* the registry leave the whole state as it is: no request written, no child
\* signalled, registry, in-flight map and the other sessions unchanged.
C15_NoOps ==
    \A key \in Keys :
        agents[key] = 0 =>
            /\ cancel(State, key) = State
            /\ close(State, key) = State

\* C15 witness: a key has no registry entry while its handshake is still in
\* flight on a running child, and the other key holds a session.
C15_Witness ==
    \E key \in Keys, other \in Keys :
        /\ agents[key] = 0 /\ initializing[key] # 0
        /\ procs[initializing[key]].running
        /\ procs[initializing[key]].pending # {}
        /\ agents[other] # 0 /\ procs[agents[other]].sessionId # Null

----------------------------------------------------------------------------
(* Properties of the probe *)

ExitedZero(exit) == exit.event = "close" /\ ~exit.null /\ exit.code = 0

\* The invocation p of probeAvailability returns in this step.
Returns(p) ==
    /\ p \in DOMAIN probes'
    /\ probes'[p].status = "returned"
    /\ p \in DOMAIN probes => probes[p].status = "running"

\* C16: when a probeAvailability returns, isHealthy is true exactly if its
\* child closed with exit code 0 (false after a null code, an 'error' event or
\* a throwing spawn, whatever it was before); a doctor call always gets a
\* report, ok: true in exactly that case and otherwise ok: false with code
\* ACP_BACKEND_UNAVAILABLE.
C16_Probe ==
    [][\A p \in 1..ProbeCalls :
          Returns(p) =>
              /\ isHealthy(healthy') = ExitedZero(probes'[p].exit)
              /\ probes'[p].doctor =>
                    /\ probes'[p].report.kind = "report"
                    /\ probes'[p].report.ok = ExitedZero(probes'[p].exit)
                    /\ ~probes'[p].report.ok =>
                          probes'[p].report.code = "ACP_BACKEND_UNAVAILABLE"
      ]_vars

\* C16 witness: a doctor call reported failure after a spawn error although an
\* earlier doctor call had found the command available.
C16_Witness ==
    \E p, q \in DOMAIN probes :
        /\ p < q
        /\ probes[p].doctor /\ probes[p].status = "returned" /\ probes[p].report.ok
        /\ probes[q].doctor /\ probes[q].status = "returned" /\ ~probes[q].report.ok
        /\ probes[q].exit = [event |-> "error"]
        /\ ~isHealthy(healthy)

----------------------------------------------------------------------------
(* Properties of agent-initiated requests *)

\* The lines of child c that carry a non-null id and a method.
Requests(c) ==
    {line \in Lines(c) :
        /\ line.json /\ line.object
        /\ Has(line.msg, "id") /\ line.msg.id # NullId
        /\ Has(line.msg, "method")}

MethodNotFound(id) == [kind |-> "error", id |-> id, code |-> -32601]

\* C17: reading a line with a non-null id and a method appends exactly one
\* reply to the child's stdin, an error with the same id and code -32601, and
\* changes nothing else: the pending map, the handshake, the calls and the
\* turns (buffer and yielded events) stay as they are, also when the id is
\* that of an outstanding request or the method is session/update.
C17_InboundRequest ==
    [][\A c \in DOMAIN procs :
          \A line \in Requests(c) :
              AgentLine(c, line) =>
                  /\ procs'[c].stdin = Append(procs[c].stdin, MethodNotFound(line.msg.id))
                  /\ [procs' EXCEPT ![c].stdin = procs[c].stdin] = procs
                  /\ turns' = turns /\ calls' = calls
                  /\ agents' = agents /\ initializing' = initializing
      ]_vars

\* C17 witness: the child was answered -32601 for a session/update request
\* carrying the id of the pending prompt; the prompt is still pending and the
\* waiting turn has been given no event.
C17_Witness ==
    \E t \in DOMAIN turns :
        LET c == turns[t].agent
        IN  /\ turns[t].pc = "wait" /\ turns[t].yielded = <<>>
            /\ turns[t].promptId \in procs[c].pending
            /\ procs[c].notifications = t
            /\ Last(procs[c].stdin) = MethodNotFound(turns[t].promptId)

----------------------------------------------------------------------------
(* Properties of the request timers *)

IsResponseTo(line, id) ==
    /\ line.json /\ line.object
    /\ Has(line.msg, "id") /\ line.msg.id = id
    /\ ~Has(line.msg, "method")

\* C18: a timer fires only for initialize, session/new, session/cancel and
\* session/set_mode; no turn is ever given the timeout error of session/prompt,
\* and a pending session/prompt leaves the pending map only by a response line,
\* a stdin write error, or the child's close or error event.
C18_OnlyControlTimeouts ==
    /\ [](\A t \in DOMAIN turns :
             ~Holds(Pushed(turns[t]), EvError(String(ErrTimeout("session/prompt")))))
    /\ [][\A c \in DOMAIN procs :
             /\ \A id \in procs[c].pending :
                   Timeout(c, id) => MethodOf(procs[c], id) \in CONTROL_METHODS
             /\ \A t \in DOMAIN turns :
                   (/\ turns[t].agent = c
                    /\ turns[t].promptId \in procs[c].pending
                    /\ turns[t].promptId \notin procs'[c].pending) =>
                       \/ \E line \in Lines(c) :
                             IsResponseTo(line, turns[t].promptId) /\ AgentLine(c, line)
                       \/ WriteError(c, turns[t].promptId)
                       \/ ChildClose(c)
                       \/ ChildError(c)
         ]_vars

\* C18 witness: the one fault of the run has happened and a session/cancel is
\* no longer pending (it timed out, failed to be written or was answered),
\* while the session/prompt of the same running child is still pending.
C18_Witness ==
    \E t \in DOMAIN turns :
        LET c == turns[t].agent
        IN  /\ c # 0 /\ turns[t].promptId \in procs[c].pending
            /\ procs[c].running /\ ~procs[c].errored
            /\ faults = 1
            /\ \E i \in Sent(procs[c], "session/cancel") :
                  procs[c].stdin[i].id \notin procs[c].pending

----------------------------------------------------------------------------
(* Properties of consecutive turns *)

ErrorResponse(id) == Json([jsonrpc |-> "2.0", id |-> id, error |-> ErrRpc])

\* C19: an error response to session/prompt gives the running turn an error
\* event and leaves the registry, the child (running, not signalled) and its
\* sessionId as they were; so does the end of any turn; and the registry entry
\* of an established session changes only when its child closes or fails, or
\* the host closes it (close, closeAll, ensureSession with another cwd).
C19_TurnErrorKeepsSession ==
    [][/\ \A t \in DOMAIN turns :
            LET c == turns[t].agent
            IN  /\ (/\ c # 0 /\ turns[t].promptId \in procs[c].pending
                    /\ AgentLine(c, ErrorResponse(turns[t].promptId))) =>
                       /\ agents' = agents
                       /\ procs'[c].sessionId = procs[c].sessionId
                       /\ procs'[c].running /\ procs'[c].sigterm = procs[c].sigterm
                       /\ (Hooked(turns[t]) /\ NoTerminal(turns[t])) =>
                             FirstTerminal(turns'[t]) = EvError(String(ErrRpc))
                /\ (TurnNext(t) \/ TurnReturn(t)) =>
                       /\ agents' = agents
                       /\ \A d \in DOMAIN procs :
                             /\ procs'[d].sessionId = procs[d].sessionId
                             /\ procs'[d].sigterm = procs[d].sigterm
       /\ \A key \in Keys :
            (/\ agents[key] # 0 /\ procs[agents[key]].sessionId # Null
             /\ agents'[key] # agents[key]) =>
                \/ ChildClose(agents[key]) \/ ChildError(agents[key])
                \/ Close(key) \/ CloseAll
                \/ \E cwd \in InputCwds : EnsureSession(key, cwd)
      ]_vars

\* C19 witness: the first turn ended with the error of its prompt's error
\* response, and a second turn on the same session, still registered with the
\* same child, ended with done.
C19_Witness ==
    /\ Len(turns) = 2 /\ Len(procs) = 1
    /\ turns[1].pc = "ended" /\ turns[1].done
    /\ Last(turns[1].yielded) = EvError(String(ErrRpc))
    /\ turns[2].pc = "ended" /\ turns[2].done
    /\ Last(turns[2].yielded) = EvDone("end_turn")
    /\ turns[2].agent = turns[1].agent
    /\ agents[turns[2].key] = turns[2].agent
    /\ procs[turns[2].agent].sessionId = SessionIdOf(turns[2].agent)
    /\ procs[turns[2].agent].running /\ ~procs[turns[2].agent].sigterm

----------------------------------------------------------------------------
(* Properties of streamed updates *)

IsPrefix(s, r) == Len(s) <= Len(r) /\ SubSeq(r, 1, Len(s)) = s

Notification(params) == Json([jsonrpc |-> "2.0", method |-> "session/update", params |-> params])

\* C20: the events of a turn are yielded in the order they were pushed, each
\* once: what was yielded stays yielded, what is buffered keeps its place
\* behind it, a session/update read for the turn adds exactly its event at the
\* end, the prompt's response adds done behind every event of an earlier
\* update, and a terminal event is yielded only after everything pushed before
\* it (an event pushed behind a terminal event is never yielded).
C20_UpdatesInOrder ==
    [][\A t \in DOMAIN turns :
         LET c == turns[t].agent
         IN  /\ t \in DOMAIN turns' /\ IsPrefix(turns[t].yielded, turns'[t].yielded)
             /\ Len(turns'[t].yielded) <= Len(turns[t].yielded) + 1
             /\ turns'[t].pc # "ended" => IsPrefix(Pushed(turns[t]), Pushed(turns'[t]))
             /\ turns'[t].pc = "ended" => turns'[t].yielded = turns[t].yielded
             /\ \A u \in Updates :
                  (/\ c # 0 /\ procs[c].notifications = t
                   /\ mapNotificationToEvent(u) # NoEvent
                   /\ AgentLine(c, Notification(u))) =>
                      Pushed(turns'[t]) = Append(Pushed(turns[t]), mapNotificationToEvent(u))
             /\ \A r \in Results(c) :
                  (/\ c # 0 /\ Hooked(turns[t]) /\ ~turns[t].done
                   /\ turns[t].promptId \in procs[c].pending
                   /\ AgentLine(c, Response(turns[t].promptId, r))) =>
                      /\ Pushed(turns'[t]) = Append(Pushed(turns[t]),
                            EvDone(IF Has(r, "stopReason") THEN r.stopReason ELSE "end_turn"))
             /\ (TerminalYielded(turns'[t]) /\ ~TerminalYielded(turns[t])) =>
                   \A i \in 1..Len(Pushed(turns[t])) :
                       (\A j \in 1..i : ~IsTerminal(Pushed(turns[t])[j])) =>
                           /\ i < Len(turns'[t].yielded)
                           /\ turns'[t].yielded[i] = Pushed(turns[t])[i]
      ]_vars

\* C20 witness: the turn is over, having yielded the events of two updates of
\* different kinds in the order they were read, and then done.
C20_Witness ==
    \E t \in DOMAIN turns :
        /\ turns[t].pc = "ended"
        /\ turns[t].yielded = <<EvTool("read"), EvText("hello"), EvDone("end_turn")>>

----------------------------------------------------------------------------
(* Properties of the notification mapper *)

\* x.f, or the default where x has no field f
Or(x, f, default) == IF f \in DOMAIN x THEN x[f] ELSE default

\* The event the mapping table gives for a params object.
Mapped(params) ==
    IF "update" \notin DOMAIN params \/ "sessionUpdate" \notin DOMAIN params.update
    THEN NoEvent
    ELSE LET u == params.update
         IN  IF u.sessionUpdate = "agent_message_chunk"
             THEN [type |-> "text_delta",
                   text |-> Or(Or(u, "content", [type |-> "none"]), "text", ""),
                   stream |-> "output"]
             ELSE IF u.sessionUpdate = "tool_call"
             THEN [type |-> "tool_call", text |-> Or(u, "title", "tool")]
             ELSE IF u.sessionUpdate = "tool_call_update"
             THEN [type |-> "status",
                   text |-> <<"tool ", Or(u, "toolCallId", ""), ": ", Or(u, "status", "")>>]
             ELSE NoEvent

\* C21: for every session/update params an agent sends, the mapper returns
\* the event of the mapping table (text_delta, tool_call, status, or null for
\* another or a missing sessionUpdate or a missing update), never done or
\* error; and a notification read while a turn's sink is installed adds that
\* event to the turn, or nothing where the mapper returns null.
C21_Mapper ==
    [][/\ \A u \in Updates :
            /\ mapNotificationToEvent(u) = Mapped(u)
            /\ mapNotificationToEvent(u).type \in {"text_delta", "tool_call", "status", "null"}
       /\ \A c \in DOMAIN procs : \A u \in Updates :
            LET t == procs[c].notifications
            IN  (t # 0 /\ AgentLine(c, Json([jsonrpc |-> "2.0", method |-> "session/update",
                                             params |-> u]))) =>
                   Pushed(turns'[t]) =
                       IF Mapped(u) = NoEvent THEN Pushed(turns[t])
                       ELSE Append(Pushed(turns[t]), Mapped(u))
      ]_vars

\* C21 witness: a turn has yielded the status event of a tool_call_update that
\* carries no status.
C21_Witness ==
    \E t \in DOMAIN turns :
        /\ turns[t].yielded # <<>>
        /\ turns[t].yielded[1] = EvStatus(<<"tool ", "t1", ": ", "">>)

----------------------------------------------------------------------------
(* Properties of the transport *)

\* C22: the 'error' event of a child empties its pending map, removes the child
\* from the registry (the entry of another child of the key stays), and, when
\* its handshake is in flight, rejects every ensureSession call that awaits the
\* handshake with the spawn error, ends the in-flight initialization and sends
\* SIGTERM.
C22_SpawnError ==
    [][\A c \in DOMAIN procs :
          ChildError(c) =>
              LET key == procs[c].key
              IN  /\ procs'[c].pending = {}
                  /\ agents'[key] # c
                  /\ agents[key] # c => agents'[key] = agents[key]
                  /\ procs[c].initReq # 0 =>
                        /\ procs'[c].sigterm /\ procs'[c].initReq = 0
                        /\ initializing'[key] # c
                        /\ \A i \in DOMAIN calls :
                              (calls[i].init = c /\ calls[i].status = "pending") =>
                                 /\ calls'[i].status = "rejected"
                                 /\ calls'[i].result = ErrSpawn
      ]_vars

\* C22 witness: the child failed to spawn while two ensureSession calls awaited
\* its handshake; both were rejected with the spawn error and the key has no
\* registry entry and no initialization in flight.
C22_Witness ==
    \E c \in DOMAIN procs :
        /\ procs[c].errored /\ procs[c].sigterm /\ procs[c].pending = {}
        /\ agents[procs[c].key] = 0 /\ initializing[procs[c].key] = 0
        /\ Cardinality({i \in DOMAIN calls : calls[i].init = c}) = 2
        /\ \A i \in DOMAIN calls :
              calls[i].init = c => calls[i].status = "rejected" /\ calls[i].result = ErrSpawn

\* The responses an agent can write for request id.
ResponsesTo(c, id) ==
    {Response(id, r) : r \in Results(c)} \cup {ErrorResponse(id)}

\* C23: a request id enters the pending map only when it is allocated, so an
\* entry that was removed never returns; an entry is removed only by a
\* response with its id, its timer, the error of its write, or the child's
\* close or error event; the promise's reactions run in the step that removes
\* the entry and in no other (the handshake moves on from the request it
\* awaits, and an awaiting ensureSession call is settled, exactly then); and a
\* response whose id has no pending entry changes nothing.
C23_SettledOnce ==
    /\ [][\A c \in DOMAIN procs :
             /\ procs'[c].pending \subseteq procs[c].pending \cup {procs[c].nextId}
             /\ procs'[c].nextId >= procs[c].nextId
             /\ \A id \in procs[c].pending \ procs'[c].pending :
                   \/ \E line \in ResponsesTo(c, id) : AgentLine(c, line)
                   \/ Timeout(c, id) \/ WriteError(c, id)
                   \/ ChildClose(c) \/ ChildError(c)
             /\ procs[c].initReq # 0 =>
                   (procs'[c].initReq # procs[c].initReq
                       <=> procs[c].initReq \notin procs'[c].pending)
             /\ \A i \in DOMAIN calls :
                   (calls[i].init = c /\ calls[i].status = "pending"
                      /\ calls'[i].status # "pending") =>
                         procs[c].initReq \in procs[c].pending \ procs'[c].pending
         ]_vars
    /\ [](\A c \in DOMAIN procs :
             /\ procs[c].pending \subseteq 1..(procs[c].nextId - 1)
             /\ procs[c].initReq # 0 => procs[c].initReq \in procs[c].pending
             /\ \A id \in (1..lim.req) \ procs[c].pending :
                   \A line \in ResponsesTo(c, id) : lineHandler(State, c, line) = State)

\* C23 witness: on a running child, one request was settled by the run's
\* one fault or a response and is no longer pending (a response with its id
\* can still arrive), while a later request is pending.
C23_Witness ==
    \E c \in DOMAIN procs :
        /\ procs[c].running /\ ~procs[c].errored /\ faults = 1
        /\ \E id \in 1..(procs[c].nextId - 1) :
              /\ id \notin procs[c].pending
              /\ \E later \in procs[c].pending : later > id

\* The requests on the stdin of a child, in the order they were written.
Written(agent) == SelectSeq(agent.stdin, LAMBDA e : e.kind = "request")

\* C24: the k-th request written to a child's stdin carries id k, nextId is
\* one more than the number of requests written, and a step only appends to
\* what was written, whichever of the handshake, a turn, cancel and setMode
\* sends the request.
C24_IdsInOrder ==
    /\ [](\A c \in DOMAIN procs :
             /\ \A k \in 1..Len(Written(procs[c])) : Written(procs[c])[k].id = k
             /\ procs[c].nextId = Len(Written(procs[c])) + 1)
    /\ [][\A c \in DOMAIN procs : IsPrefix(procs[c].stdin, procs'[c].stdin)]_vars

\* C24 witness: with the prompt of a running turn pending, session/set_mode
\* and session/cancel were sent and are pending too: five requests, ids 1 to 5.
C24_Witness ==
    \E c \in DOMAIN procs :
        /\ Len(Written(procs[c])) = 5
        /\ [k \in 1..5 |-> Written(procs[c])[k].method] \in
              {<<"initialize", "session/new", "session/prompt", "session/set_mode", "session/cancel">>,
               <<"initialize", "session/new", "session/prompt", "session/cancel", "session/set_mode">>}
        /\ {3, 4, 5} \subseteq procs[c].pending

----------------------------------------------------------------------------
(* Properties of the end of a turn *)

Gone(turn) == turn.pc \in {"ended", "threw"}

\* C25: the step in which a running turn ends (after its terminal event or by
\* the consumer's return()) leaves the sink of the turn's child empty; once a
\* turn is over (also by the exception of a missing session or after the done
\* of a signal aborted on entry) no child has the turn's sink installed, the
\* turn never yields again, aborting its signal writes nothing to any child,
\* and a session/update read from its child leaves the turn as it was.
C25_Detached ==
    /\ [](\A t \in DOMAIN turns :
             Gone(turns[t]) => \A c \in DOMAIN procs : procs[c].notifications # t)
    /\ [][\A t \in DOMAIN turns :
             /\ (Hooked(turns[t]) /\ turns'[t].pc = "ended") =>
                   /\ TurnNext(t) \/ TurnReturn(t)
                   /\ procs'[turns[t].agent].notifications = 0
             /\ Gone(turns[t]) =>
                   /\ turns'[t].pc = turns[t].pc /\ turns'[t].yielded = turns[t].yielded
                   /\ Abort(t) =>
                         /\ procs' = procs /\ agents' = agents
                         /\ turns' = [turns EXCEPT ![t].aborted = TRUE]
                   /\ (/\ turns[t].agent # 0
                       /\ \E u \in Updates : AgentLine(turns[t].agent, Notification(u))) =>
                          turns'[t] = turns[t]
         ]_vars

\* C25 witness: the consumer stopped a turn early, before any terminal event,
\* its signal was aborted afterwards, and the running child, whose prompt is
\* still pending, was sent no session/cancel.
C25_Witness ==
    \E t \in DOMAIN turns :
        LET c == turns[t].agent
        IN  /\ turns[t].pc = "ended" /\ c # 0
            /\ turns[t].yielded # <<>> /\ ~TerminalYielded(turns[t])
            /\ turns[t].aborted
            /\ procs[c].running /\ turns[t].promptId \in procs[c].pending
            /\ Sent(procs[c], "session/cancel") = {}

----------------------------------------------------------------------------
(* Properties of two sessions *)

\* C26: a line read from the child of one session changes nothing of another
\* child (its pending map, its sink, its handshake), no turn that runs on
\* another child, no ensureSession call that awaits another child and no
\* registry entry of another key.
C26_Isolation ==
    [][\A c \in DOMAIN procs :
          (\E line \in Lines(c) : AgentLine(c, line)) =>
              /\ \A d \in DOMAIN procs : d # c => procs'[d] = procs[d]
              /\ \A t \in DOMAIN turns : turns[t].agent # c => turns'[t] = turns[t]
              /\ \A i \in DOMAIN calls : calls[i].init # c => calls'[i] = calls[i]
              /\ \A key \in Keys :
                    key # procs[c].key =>
                       agents'[key] = agents[key] /\ initializing'[key] = initializing[key]
      ]_vars

\* C26 witness: the turns of two sessions had their prompts pending under the
\* same request id; the response read from one child ended that child's turn
\* with done, and the other turn still waits with its prompt pending.
C26_Witness ==
    \E t, u \in DOMAIN turns :
        /\ turns[t].agent # 0 /\ turns[u].agent # 0
        /\ turns[t].agent # turns[u].agent
        /\ procs[turns[t].agent].key # procs[turns[u].agent].key
        /\ turns[t].promptId = turns[u].promptId
        /\ turns[t].yielded = <<EvDone("end_turn")>>
        /\ turns[u].pc = "wait" /\ turns[u].yielded = <<>>
        /\ turns[u].promptId \in procs[turns[u].agent].pending

----------------------------------------------------------------------------
(* Properties of the working directory *)

\* C27: every child was spawned with the effective cwd (input.cwd ??
\* config.cwd) of the ensureSession call that spawned it, and once its
\* handshake has completed the cwd stored for its session and the cwd of the
\* handle that call got are that same value.
C27_SpawnCwd ==
    \A i \in DOMAIN calls :
        Starter(i) =>
            LET c == calls[i].init
            IN  /\ procs[c].spawnCwd = effectiveCwd(calls[i].cwd)
                /\ calls[i].status = "resolved" =>
                      /\ procs[c].cwd = procs[c].spawnCwd
                      /\ calls[i].result.cwd = procs[c].spawnCwd

----------------------------------------------------------------------------
(* Properties of replaced children *)

\* Child c was replaced: the registry entry of its key holds another child.
Replaced(c) == agents[procs[c].key] \notin {0, c}

\* C28: the close event and the error event of a child whose key's registry
\* entry holds another child leave the registry, the in-flight map and every
\* other child as they were.
C28_StaleChildEvent ==
    [][\A c \in DOMAIN procs :
          (Replaced(c) /\ (ChildClose(c) \/ ChildError(c))) =>
              /\ agents' = agents
              /\ initializing' = initializing
              /\ \A d \in DOMAIN procs : d # c => procs'[d] = procs[d]
      ]_vars

\* C28 witness: a child that was replaced under its key has closed, and the
\* replacement, still running and not signalled, is the key's entry.
C28_Witness ==
    \E c, d \in DOMAIN procs :
        /\ c < d /\ procs[c].key = procs[d].key
        /\ ~procs[c].running /\ procs[c].sigterm
        /\ agents[procs[d].key] = d
        /\ procs[d].running /\ ~procs[d].sigterm

\* Child c is alive and was not told to stop: it was spawned (no 'error'
\* event), has not closed, and was not sent SIGTERM.
Live(c) == procs[c].running /\ ~procs[c].errored /\ ~procs[c].sigterm

\* C29: every child that is alive and was not sent SIGTERM is the registry
\* entry of its session key; so no key has two such children.
C29_OneLiveChild ==
    /\ \A c \in DOMAIN procs : Live(c) => agents[procs[c].key] = c
    /\ \A c, d \in DOMAIN procs :
          (Live(c) /\ Live(d) /\ procs[c].key = procs[d].key) => c = d

\* C29 witness: two children of one key are running at once: the older was
\* sent SIGTERM and has not exited yet, the newer is the key's entry.
C29_Witness ==
    \E c, d \in DOMAIN procs :
        /\ c < d /\ procs[c].key = procs[d].key
        /\ procs[c].running /\ procs[c].sigterm
        /\ Live(d) /\ agents[procs[d].key] = d

\* C30: the handle of every resolved ensureSession call carries the effective
\* cwd (input.cwd ?? config.cwd) of that call.
C30_HandleCwd ==
    \A i \in DOMAIN calls :
        calls[i].status = "resolved" => calls[i].result.cwd = effectiveCwd(calls[i].cwd)

----------------------------------------------------------------------------
(* Properties of a handshake that outlives its registry entry *)

\* C31: in the state in which an ensureSession call resolves, the registry
\* holds for the call's key a child whose sessionId is set and which was not
\* sent SIGTERM.
C31_ResolvedIsRegistered ==
    [][\A i \in DOMAIN calls' :
          (calls'[i].status = "resolved"
             /\ (i \in DOMAIN calls => calls[i].status = "pending")) =>
                LET c == agents'[calls'[i].key]
                IN  /\ c # 0
                    /\ procs'[c].sessionId # Null
                    /\ ~procs'[c].sigterm
      ]_vars

----------------------------------------------------------------------------
(* Properties of overlapping turns *)

\* C32: when a turn ends while another turn, running on the same child, has
\* its sink installed, the sink of that other turn stays installed.
C32_SinkOfOtherTurnStays ==
    [][\A t, u \in DOMAIN turns :
          (/\ t # u /\ turns[t].agent # 0 /\ turns[u].agent = turns[t].agent
           /\ Hooked(turns[t]) /\ Hooked(turns[u])
           /\ procs[turns[u].agent].notifications = u
           /\ turns'[t].pc = "ended" /\ Hooked(turns'[u])) =>
              procs'[turns[u].agent].notifications = u
      ]_vars

----------------------------------------------------------------------------
(* Properties of a turn that follows a cancelled one *)

\* Turn t ended with done{cancelled} and its session/prompt has not been
\* answered: what the agent writes until it answers stems from that prompt.
CancelledOutstanding(t) ==
    /\ turns[t].pc = "ended" /\ turns[t].agent # 0
    /\ turns[t].yielded # <<>> /\ Last(turns[t].yielded) = EvDone("cancelled")
    /\ turns[t].promptId \in procs[turns[t].agent].pending

\* C33: while the prompt of a cancelled, ended turn is outstanding, neither a
\* response to that prompt nor a session/update read from the child adds an
\* event to a later turn on the same child.
C33_OwnEventsOnly ==
    [][\A t, u \in DOMAIN turns :
          (/\ CancelledOutstanding(t) /\ t < u /\ turns[u].agent = turns[t].agent
           /\ \/ \E line \in ResponsesTo(turns[t].agent, turns[t].promptId) :
                    AgentLine(turns[t].agent, line)
              \/ \E p \in Updates : AgentLine(turns[t].agent, Notification(p))) =>
              /\ Pushed(turns'[u]) = Pushed(turns[u])
              /\ turns'[u].pc # "ended"
      ]_vars

====
